---------------------------- MODULE Spec2Model ----------------------------
(***************************************************************************)
(* A model of the sparse-matrix primitives and of the sparse collective    *)
(* communication layer of DGL (zzhang-cn/dgl):                             *)
(*   - src/src/runtime/cuda/nccl_api.cu   SparsePush, SparsePull, the      *)
(*     bucketing helpers, the NCCL rounds and NCCLUniqueId;                *)
(*   - src/src/array/cpu/csr_sort.cc      CSRIsSorted, CSRSort_,           *)
(*     CSRSortByTag;                                                       *)
(*   - src/src/array/cpu/spmat_op_impl_coo.cc   the COO queries and        *)
(*     COOToCSR.                                                           *)
(* Arrays are sequences; the C++ index i is position i+1 (operator At).    *)
(* Each subsystem has its own specification (SpecComm, SpecCsr, SpecCoo,   *)
(* SpecUid); the variables of the other subsystems stay at their idle      *)
(* values.                                                                 *)
(***************************************************************************)
EXTENDS Integers, Sequences, FiniteSets, TLC

VARIABLES
    \* ---- sparse collective communication (nccl_api.cu) ----
    comm_size,   \* comm->size(), the same on every rank
    op,          \* "push" | "pull" | "idle": the call every rank issues (SPMD)
    phase,       \* how far the ranks are in the call ("stalled": a send of the
                 \* last round met no receive of its size, the group never ends)
    in_idx,      \* rank -> the index array the caller passes (in_idx / req_idx)
    rank,        \* rank -> the call's local buffers and host vectors
    rounds,      \* number of NCCL group rounds issued so far
    matched,     \* every send posted so far met a receive of the same size
    \* ---- NCCLUniqueId (nccl_api.cu) ----
    uid,         \* id_.internal of the identifier being serialised (chars)
    uidStr,      \* the string handed around, a sequence of characters
    uidParsed,   \* id_.internal of the identifier FromString filled
    uidPhase,    \* "fresh" | "stringed" | "tampered" | "parsed" | "rejected" | "fatal"
    \* ---- CSR sorting (csr_sort.cc) ----
    csrIn,       \* the CSRMatrix the caller built
    csr,         \* the CSRMatrix as it is now (CSRSort_ works in place)
    csrOnce,     \* the CSRMatrix as the first CSRSort_ left it
    csrPhase,    \* "fresh" | "sorted1" | "sorted2" | "tagged" | "tagfatal"
    isSorted,    \* what the last call returned if it was CSRIsSorted: "true" | "false", else "none"
    tagCall,     \* the arguments and results of CSRSortByTag
    \* ---- COO matrices (spmat_op_impl_coo.cc) ----
    coo,         \* the COOMatrix the caller built
    cooCall,     \* the call made on it: function, arguments, outcome
    cooPhase,    \* "fresh" | "called"
    \* ---- kernel entry points (spmm.cc, sddmm.cc, segment_reduce.cc) ----
    kreq,        \* the arguments the caller passes: graph, features, names
    kres,        \* entry point -> what its call did, NotCalled before it
    \* ---- atomic functions (atomic.cuh) ----
    atom,        \* which Atomic##NAME<T> the threads call, the build, and *addr before them
    cell,        \* the code stored at the address all threads update
    thr,         \* thread -> its operand, its locals old/assumed, its pc
    \* ---- node2vec random walk (node2vec_randomwalk.cc) ----
    walkCall,    \* the call: seeds, walk_length, the traces array, stray writes
    walkThr,     \* seed_id -> the loop iteration's locals i, curr, pre and its pc
    \* ---- disjoint union and partition (union_partition.cc) ----
    ureq,        \* the component graphs the caller passes
    ures         \* entry point -> what its call returned, NotCalled before it

commVars == <<comm_size, op, phase, in_idx, rank, rounds, matched>>
uidVars == <<uid, uidStr, uidParsed, uidPhase>>
csrVars == <<csrIn, csr, csrOnce, csrPhase, isSorted, tagCall>>

cooVars == <<coo, cooCall, cooPhase>>
kernVars == <<kreq, kres>>
atomVars == <<atom, cell, thr>>
walkVars == <<walkCall, walkThr>>
unionVars == <<ureq, ures>>

vars == <<commVars, uidVars, csrVars, cooVars, kernVars, atomVars, walkVars,
          unionVars>>

\* What each subsystem's operations leave alone.
nonCommVars == <<uidVars, csrVars, cooVars, kernVars, atomVars, walkVars,
                 unionVars>>
nonUidVars == <<commVars, csrVars, cooVars, kernVars, atomVars, walkVars,
                 unionVars>>
nonCsrVars == <<commVars, uidVars, cooVars, kernVars, atomVars, walkVars,
                 unionVars>>
nonCooVars == <<commVars, uidVars, csrVars, kernVars, atomVars, walkVars,
                 unionVars>>
nonKernVars == <<commVars, uidVars, csrVars, cooVars, atomVars, walkVars,
                 unionVars>>
nonAtomVars == <<commVars, uidVars, csrVars, cooVars, kernVars, walkVars,
                 unionVars>>
nonWalkVars == <<commVars, uidVars, csrVars, cooVars, kernVars, atomVars,
                 unionVars>>
nonUnionVars == <<commVars, uidVars, csrVars, cooVars, kernVars, atomVars,
                  walkVars>>

-----------------------------------------------------------------------------
(* Bounds of the model *)

\* Total number of indices the ranks pass to one push or pull.
MaxItems == 3
\* Largest global index a rank pushes or requests.
MaxIdx == 3

\* Communicator sizes explored: 1 (pass-through), 2 (power of two, mask
\* path), 3 (remainder path).
CommSizes == {1, 2, 3}

-----------------------------------------------------------------------------
(* Generic helpers *)

At(a, i) == a[i + 1]

Min(a, b) == IF a < b THEN a ELSE b
Max(a, b) == IF a > b THEN a ELSE b

RECURSIVE SumSeq(_)
SumSeq(s) == IF s = <<>> THEN 0 ELSE Head(s) + SumSeq(Tail(s))

\* The sequences of ss laid end to end.
RECURSIVE Flatten(_)
Flatten(ss) ==
    IF Len(ss) = 0 THEN <<>>
    ELSE IF Len(ss) = 1 THEN ss[1]
    ELSE Flatten(SubSeq(ss, 1, Len(ss) \div 2))
            \o Flatten(SubSeq(ss, (Len(ss) \div 2) + 1, Len(ss)))

\* The multiset of the elements of a sequence, as a function element -> count.
BagOfSeq(s) ==
    [x \in {s[i] : i \in DOMAIN s} |-> Cardinality({i \in DOMAIN s : s[i] = x})]

\* s[lo+1..hi] for C++ offsets lo (inclusive) and hi (exclusive).
Slice(s, lo, hi) == [j \in 1..(hi - lo) |-> s[lo + j]]

RECURSIVE Pow2(_)
Pow2(k) == IF k <= 0 THEN 1 ELSE 2 * Pow2(k - 1)

\* static_cast<int64_t>(std::ceil(std::log2(n))) for n >= 1
RECURSIVE CeilLog2(_)
CeilLog2(n) == IF n <= 1 THEN 0 ELSE 1 + CeilLog2((n + 1) \div 2)

\* a & b on non-negative integers
RECURSIVE BitAnd(_, _)
BitAnd(a, b) ==
    IF a = 0 \/ b = 0 THEN 0
    ELSE (a % 2) * (b % 2) + 2 * BitAnd(a \div 2, b \div 2)

\* aten::Range(low, high): low, low+1, ..., high-1
Range(low, high) == [j \in 1..(high - low) |-> low + j - 1]

\* What a read of memory that was never written can yield.
UninitDType == {0, -1}
UninitInt64 == {0, 7}

-----------------------------------------------------------------------------
(* Device kernels and CUB primitives used by the communication layer *)

_MapProcByRemainder(index, num_proc) ==
    [j \in DOMAIN index |-> index[j] % num_proc]

_MapProcByMaskRemainder(index, mask) ==
    [j \in DOMAIN index |-> BitAnd(index[j], mask)]

\* if (comm_size < (1 << comm_bits)): "comm_size is not a power of 2"
UsesRemainder(cs) == cs < Pow2(CeilLog2(cs))

\* The "First, generate a mapping of indexes to processors" block.
MapProc(in, cs) ==
    IF UsesRemainder(cs)
    THEN _MapProcByRemainder(in, cs)
    ELSE _MapProcByMaskRemainder(in, cs - 1)

\* (mutant) pairs of one key come out latest first
SortPairs_LatestFirst(keys_in, values_in, end_bit) ==
    LET n   == Len(keys_in)
        kb(j) == keys_in[j] % Pow2(end_bit)
        pos == Flatten([k \in 1..Pow2(end_bit) |->
                   SelectSeq([j \in 1..n |-> n + 1 - j], LAMBDA j : kb(j) = k - 1)])
    IN  [keys   |-> [j \in 1..n |-> keys_in[pos[j]]],
         values |-> [j \in 1..n |-> values_in[pos[j]]]]

\* cub::DeviceRadixSort::SortPairs(keys, values, begin_bit = 0, end_bit):
\* a stable sort of the (key, value) pairs on the key bits [0, end_bit).
\* Returns the sorted keys and the values carried along.
SortPairs(keys_in, values_in, end_bit) ==
    LET n   == Len(keys_in)
        kb(j) == keys_in[j] % Pow2(end_bit)
        pos == Flatten([k \in 1..Pow2(end_bit) |->
                   SelectSeq([j \in 1..n |-> j], LAMBDA j : kb(j) = k - 1)])
    IN  [keys   |-> [j \in 1..n |-> keys_in[pos[j]]],
         values |-> [j \in 1..n |-> values_in[pos[j]]]]

\* cub::DeviceHistogram::HistogramEven with an integer level type: num_levels-1
\* bins of width (upper - lower) / num_bins (integer division); a sample
\* outside [lower, upper) is not counted.
HistogramEven(samples, num_levels, lower, upper) ==
    LET num_bins == num_levels - 1
        scale    == (upper - lower) \div num_bins
        bin(s)   == (s - lower) \div scale
    IN  [b \in 1..num_bins |->
            Cardinality({j \in DOMAIN samples :
                /\ samples[j] >= lower
                /\ samples[j] < upper
                /\ bin(samples[j]) = b - 1})]

\* cub::DeviceScan::ExclusiveSum over num_items items
ExclusiveSum(d_in, num_items) ==
    [j \in 1..num_items |-> SumSeq(SubSeq(d_in, 1, j - 1))]

\* aten::impl::IndexSelectSingleKernel: out[i] = array[index[i]]
IndexSelectSingleKernel(array, index) ==
    [j \in DOMAIN index |-> At(array, index[j])]

\* (mutant) the value rows are copied in their input order
_DualPermKernel_ValuesUnpermuted(in, in_value, perm) ==
    [idx   |-> [j \in DOMAIN perm |-> At(in, perm[j])],
     value |-> [j \in DOMAIN perm |-> in_value[j]]]

\* _DualPermKernel: out_idx[i] = in_idx[perm[i]], out_value row i = in_value
\* row perm[i] (a value row is one element here, whatever num_feat is).
_DualPermKernel(in, in_value, perm) ==
    [idx   |-> [j \in DOMAIN perm |-> At(in, perm[j])],
     value |-> [j \in DOMAIN perm |-> At(in_value, perm[j])]]

_ConvertToLocalByRemainder(items, cs) ==
    [j \in DOMAIN items |-> items[j] \div cs]

\* aten::impl::IndexSelectMultiKernel: out row i = array row index[i]
IndexSelectMultiKernel(array, index) ==
    [j \in DOMAIN index |-> At(array, index[j])]

\* _InversePermKernel: out row perm[i] = array row i, for i < length.  A row
\* of out that no i maps to keeps what NDArray::Empty left there.
_InversePermKernel(array, length, perm, uninit) ==
    [j \in 1..length |->
        IF \E i \in 1..length : perm[i] = j - 1
        THEN array[CHOOSE i \in 1..length :
                      /\ perm[i] = j - 1
                      /\ \A i2 \in 1..length : perm[i2] = j - 1 => i2 <= i]
        ELSE uninit]

\* (mutant) the counters are left as allocated
MemsetCounts_Skipped(cs) == [j \in 1..(cs + 1) |-> 7]

\* cudaMemsetAsync(out_counts, 0, sizeof(*out_counts)*(comm_size+1))
MemsetCounts(cs) == [j \in 1..(cs + 1) |-> 0]

\* The histogram writes the first comm_size counters of out_counts; the
\* last one keeps what was there before.
CountSends(proc_id_out, cs, before) ==
    LET h == HistogramEven(proc_id_out, cs + 1, 0, cs + 1)
    IN  [j \in 1..(cs + 1) |-> IF j <= cs THEN h[j] ELSE before[j]]

\* GenerateSparseBufferFromRemainder (pull): the bucketed indices, the
\* permutation that bucketed them and the per-destination counts.
GenerateSparseBufferFromRemainder(cs, in) ==
    LET num_in == Len(in)
        zeroed == MemsetCounts(cs)
    IN  IF num_in = 0
        THEN [out_idx |-> <<>>, out_perm |-> <<>>, out_counts |-> zeroed]
        ELSE LET proc_id_in == MapProc(in, cs)
                 sorted     == SortPairs(proc_id_in, Range(0, num_in), CeilLog2(cs))
             IN  [out_idx    |-> IndexSelectSingleKernel(in, sorted.values),
                  out_perm   |-> sorted.values,
                  out_counts |-> CountSends(sorted.keys, cs, zeroed)]

\* GenerateSparseBuffersFromRemainder (push): the bucketed indices and value
\* rows and the per-destination counts.
GenerateSparseBuffersFromRemainder(cs, in, in_value) ==
    LET num_in == Len(in)
        zeroed == MemsetCounts(cs)
    IN  IF num_in = 0
        THEN [out_idx |-> <<>>, out_value |-> <<>>, out_counts |-> zeroed]
        ELSE LET proc_id_in == MapProc(in, cs)
                 sorted     == SortPairs(proc_id_in, Range(0, num_in), CeilLog2(cs))
                 permuted   == _DualPermKernel(in, in_value, sorted.values)
             IN  [out_idx    |-> permuted.idx,
                  out_value  |-> permuted.value,
                  out_counts |-> CountSends(sorted.keys, cs, zeroed)]

-----------------------------------------------------------------------------
(* NCCLCommunicator rounds *)

Ranks == 0..(comm_size - 1)

\* What rank s sends to rank r: send + send_prefix[r], of send_prefix[r+1] -
\* send_prefix[r] elements.
SendSize(send_prefix, r) == At(send_prefix, r + 1) - At(send_prefix, r)
SendSeg(send, send_prefix, r) ==
    Slice(send, At(send_prefix, r), At(send_prefix, r + 1))

\* ncclSend/ncclRecv pairs of one group: a send of n > 0 elements is posted
\* for a peer exactly when the sizes say so, and it completes against the
\* peer's receive when that has the same size.
RoundMatched(send_prefix, recv_prefix) ==
    \A s \in Ranks, r \in Ranks :
        SendSize(send_prefix[s], r) = SendSize(recv_prefix[r], s)

\* NCCLCommunicator::AllToAllV as seen by rank r: for every peer s, the
\* recv_prefix[s+1]-recv_prefix[s] elements at recv + recv_prefix[s] are what
\* s sent to r.  Elements no send covers keep their old content (uninit).
AllToAllV(r, send, send_prefix, recv_prefix, uninit) ==
    Flatten([k \in 1..comm_size |->
        LET s   == k - 1
            seg == SendSeg(send[s], send_prefix[s], r)
            n   == SendSize(recv_prefix, s)
        IN  [j \in 1..n |-> IF j <= Len(seg) THEN seg[j] ELSE uninit]])

\* (mutant) every rank receives its own counters back
AllToAll_NotTransposed(r, send, last) ==
    [j \in 1..(comm_size + 1) |->
        IF j <= comm_size THEN At(send[r], j - 1) ELSE last]

\* NCCLCommunicator::AllToAll with count = 1: recv[s] on rank r is send[r] of
\* rank s.  The buffers hold comm_size+1 counters and the round moves
\* comm_size of them: the last counter of recv is never written.
AllToAll(r, send, last) ==
    [j \in 1..(comm_size + 1) |->
        IF j <= comm_size THEN At(send[j - 1], r) ELSE last]

\* NCCLCommunicator::SparseAllToAll: the index array and the value array go
\* through the same sends and receives, the values scaled by num_feat.
SparseAllToAll(r, send, send_value, send_prefix, recv_prefix, uninit) ==
    [idx   |-> AllToAllV(r, send, send_prefix, recv_prefix, uninit),
     value |-> AllToAllV(r, send_value, send_prefix, recv_prefix, uninit)]

-----------------------------------------------------------------------------
(* Inputs of a push or pull *)

IdxDomain == 0..MaxIdx

\* The value row the caller on rank r pushes at position j for index x.
PushValue(r, x) == 10 * x + r
InValue(r) == [j \in DOMAIN in_idx[r] |-> PushValue(r, in_idx[r][j])]

\* The local shard of rank r: row k holds the row of global index
\* k*comm_size + r, whose value is 10 times the global index.
GlobalRow(x) == 10 * x
LocalRows == (MaxIdx \div comm_size) + 1
LocalTensor(r) == [k \in 1..LocalRows |-> GlobalRow((k - 1) * comm_size + r)]

\* aten::IndexSelect(array, index)
IndexSelect(array, index) == [j \in DOMAIN index |-> At(array, index[j])]

NoBuffers ==
    [send_idx |-> <<>>, send_value |-> <<>>, perm |-> <<>>,
     send_sum |-> <<>>, send_prefix |-> <<>>, recv_prefix |-> <<>>,
     recv_idx |-> <<>>, recv_value |-> <<>>,
     response |-> <<>>, request |-> <<>>, result |-> <<>>,
     live |-> {}, nalloc |-> 0, nfree |-> 0, events |-> <<>>]

\* Every assignment of index arrays to the ranks with at most MaxItems
\* indices in total: a sequence of (owner, index) items, rank r getting the
\* indices it owns in sequence order.
ItemSeqs(cs) ==
    UNION {[1..n -> (0..(cs - 1)) \X IdxDomain] : n \in 0..MaxItems}
OwnedBy(items, r) ==
    LET mine == SelectSeq(items, LAMBDA it : it[1] = r)
    IN  [j \in DOMAIN mine |-> mine[j][2]]

IdleComm ==
    /\ comm_size = 0
    /\ op = "idle"
    /\ phase = "idle"
    /\ in_idx = <<>>
    /\ rank = <<>>
    /\ rounds = 0
    /\ matched = TRUE

IdleUid ==
    /\ uid = <<>>
    /\ uidStr = <<>>
    /\ uidParsed = <<>>
    /\ uidPhase = "idle"

IdleCsr ==
    /\ csrIn = <<>>
    /\ csr = <<>>
    /\ csrOnce = <<>>
    /\ csrPhase = "idle"
    /\ isSorted = "none"
    /\ tagCall = <<>>

IdleCoo ==
    /\ coo = <<>>
    /\ cooCall = <<>>
    /\ cooPhase = "idle"

IdleKern ==
    /\ kreq = <<>>
    /\ kres = <<>>

IdleAtom ==
    /\ atom = <<>>
    /\ cell = 0
    /\ thr = <<>>

IdleWalk ==
    /\ walkCall = <<>>
    /\ walkThr = <<>>

IdleUnion ==
    /\ ureq = <<>>
    /\ ures = <<>>

InitComm ==
    /\ comm_size \in CommSizes
    /\ op \in {"push", "pull"}
    /\ phase = "start"
    /\ \E items \in ItemSeqs(comm_size) :
           in_idx = [r \in Ranks |-> OwnedBy(items, r)]
    /\ rank = [r \in Ranks |-> NoBuffers]
    /\ rounds = 0
    /\ matched = TRUE
    /\ IdleUid
    /\ IdleCsr
    /\ IdleCoo
    /\ IdleKern
    /\ IdleAtom
    /\ IdleWalk
    /\ IdleUnion

-----------------------------------------------------------------------------
(* SparsePush, one action per stretch of code between two NCCL rounds; every
   rank runs the same stretch on its own buffers (SPMD). *)

\* (mutant) the early return is never taken
IsSingleRank_Never(cs) == FALSE

\* if (comm_size == 1): the early return of SparsePush and SparsePull
IsSingleRank(cs) == cs = 1

\* AllocWorkspace / FreeWorkspace bookkeeping of one stretch of code.
Workspace(b, allocated, freed) ==
    [b EXCEPT !.live   = (b.live \cup allocated) \ freed,
              !.nalloc = b.nalloc + Cardinality(allocated),
              !.nfree  = b.nfree + Cardinality(freed)]

\* The buffers GenerateSparseBuffersFromRemainder allocates and frees.
PushBucketScratch(num_in) ==
    IF num_in = 0 THEN {}
    ELSE {"proc_id_in", "proc_id_out", "perm_out", "sort_workspace",
          "hist_workspace"}

\* The buffers GenerateSparseBufferFromRemainder allocates and frees.
PullBucketScratch(num_in) ==
    IF num_in = 0 THEN {}
    ELSE {"proc_id_in", "proc_id_out", "sort_workspace", "hist_workspace"}

\* The workspace calls and the buffer accesses of a call, in program order:
\* <<"alloc", b>> is AllocWorkspace, <<"free", b>> FreeWorkspace, <<"use", b>>
\* a kernel, copy or NCCL call that reads or writes b.
Ev(kind, names) == [j \in DOMAIN names |-> <<kind, names[j]>>]

\* GenerateSparseBufferFromRemainder (lines 229-336), called by SparsePull
\* with out_idx = send_idx, out_perm = perm, out_counts = send_sum.
GenerateSparseBufferFromRemainderCalls(num_in) ==
    Ev("use", <<"send_sum">>)
    \o (IF num_in = 0 THEN <<>>
        ELSE Ev("alloc", <<"proc_id_in">>) \o Ev("use", <<"proc_id_in">>)
          \o Ev("alloc", <<"proc_id_out", "sort_workspace">>)
          \o Ev("use", <<"sort_workspace", "proc_id_in", "proc_id_out", "perm">>)
          \o Ev("free", <<"sort_workspace", "proc_id_in">>)
          \o Ev("use", <<"perm", "send_idx">>)
          \o Ev("alloc", <<"hist_workspace">>)
          \o Ev("use", <<"hist_workspace", "proc_id_out", "send_sum">>)
          \o Ev("free", <<"hist_workspace", "proc_id_out">>))

\* (mutant) perm_out is never handed back
GenerateSparseBuffersFromRemainderCalls_PermOutKept(num_in) ==
    Ev("use", <<"send_sum">>)
    \o (IF num_in = 0 THEN <<>>
        ELSE Ev("alloc", <<"proc_id_in">>) \o Ev("use", <<"proc_id_in">>)
          \o Ev("alloc", <<"proc_id_out", "perm_out", "sort_workspace">>)
          \o Ev("use", <<"sort_workspace", "proc_id_in", "proc_id_out", "perm_out">>)
          \o Ev("free", <<"sort_workspace", "proc_id_in">>)
          \o Ev("use", <<"perm_out", "send_idx", "send_value">>)
          \o Ev("alloc", <<"hist_workspace">>)
          \o Ev("use", <<"hist_workspace", "proc_id_out", "send_sum">>)
          \o Ev("free", <<"hist_workspace", "proc_id_out">>))

\* GenerateSparseBuffersFromRemainder (lines 359-474), called by SparsePush
\* with out_idx = send_idx, out_value = send_value, out_counts = send_sum.
GenerateSparseBuffersFromRemainderCalls(num_in) ==
    Ev("use", <<"send_sum">>)
    \o (IF num_in = 0 THEN <<>>
        ELSE Ev("alloc", <<"proc_id_in">>) \o Ev("use", <<"proc_id_in">>)
          \o Ev("alloc", <<"proc_id_out", "perm_out", "sort_workspace">>)
          \o Ev("use", <<"sort_workspace", "proc_id_in", "proc_id_out", "perm_out">>)
          \o Ev("free", <<"sort_workspace", "proc_id_in">>)
          \o Ev("use", <<"perm_out", "send_idx", "send_value">>)
          \o Ev("free", <<"perm_out">>)
          \o Ev("alloc", <<"hist_workspace">>)
          \o Ev("use", <<"hist_workspace", "proc_id_out", "send_sum">>)
          \o Ev("free", <<"hist_workspace", "proc_id_out">>))

\* cub::DeviceScan::ExclusiveSum(sum -> prefix) with its workspace, the copy
\* of prefix to the host and FreeWorkspace(prefix)
PrefixCalls(sum, prefix) ==
    Ev("alloc", <<prefix, "prefix_workspace">>)
    \o Ev("use", <<"prefix_workspace", sum, prefix>>)
    \o Ev("free", <<"prefix_workspace">>)

\* The workspace calls of each stretch of SparsePush and SparsePull.
WorkspaceCalls(stage, num_in, request_total, response_total) ==
    CASE stage = "PushBucket" ->
            Ev("alloc", <<"send_idx", "send_value", "send_sum">>)
            \o GenerateSparseBuffersFromRemainderCalls(num_in)
            \o PrefixCalls("send_sum", "send_prefix")
            \o Ev("use", <<"send_prefix">>) \o Ev("free", <<"send_prefix">>)
      [] stage = "PushCounts" ->
            Ev("alloc", <<"recv_sum">>) \o Ev("use", <<"send_sum", "recv_sum">>)
            \o Ev("free", <<"send_sum">>)
            \o PrefixCalls("recv_sum", "recv_prefix")
            \o Ev("free", <<"recv_sum">>)
            \o Ev("use", <<"recv_prefix">>) \o Ev("free", <<"recv_prefix">>)
      [] stage = "PushExchange" ->
            Ev("use", <<"send_idx", "send_value">>)
            \o Ev("free", <<"send_idx", "send_value">>)
      [] stage = "PullBucket" ->
            Ev("alloc", <<"send_idx", "perm", "send_sum">>)
            \o GenerateSparseBufferFromRemainderCalls(num_in)
            \o PrefixCalls("send_sum", "request_prefix")
            \o Ev("use", <<"request_prefix">>) \o Ev("free", <<"request_prefix">>)
      [] stage = "PullCounts" ->
            Ev("alloc", <<"recv_sum">>) \o Ev("use", <<"send_sum", "recv_sum">>)
            \o Ev("free", <<"send_sum">>)
            \o PrefixCalls("recv_sum", "response_prefix")
            \o Ev("free", <<"recv_sum">>)
            \o Ev("use", <<"response_prefix">>) \o Ev("free", <<"response_prefix">>)
      [] stage = "PullRequests" ->
            Ev("alloc", <<"recv_idx">>) \o Ev("use", <<"send_idx", "recv_idx">>)
            \o Ev("free", <<"send_idx">>)
      [] stage = "PullFulfil" ->
            (IF response_total > 0 THEN Ev("use", <<"recv_idx">>) ELSE <<>>)
            \o Ev("alloc", <<"filled_response_value">>)
            \o (IF request_total > 0
                THEN Ev("use", <<"recv_idx", "filled_response_value">>) ELSE <<>>)
            \o Ev("free", <<"recv_idx">>)
      [] stage = "PullResponses" ->
            Ev("alloc", <<"filled_request_value">>)
            \o Ev("use", <<"filled_response_value", "filled_request_value">>)
            \o Ev("free", <<"filled_response_value">>)
      [] stage = "PullUnpermute" ->
            (IF num_in > 0 THEN Ev("use", <<"filled_request_value", "perm">>) ELSE <<>>)
            \o Ev("free", <<"filled_request_value", "perm">>)

\* The rank's record after a stretch of code ran: events keeps, per stretch,
\* what decides the workspace calls it made.
Issued(b, stage, num_in) ==
    [b EXCEPT !.events = @ \o <<
        <<stage, num_in,
          IF Len(b.send_prefix) = 0 THEN 0 ELSE b.send_prefix[Len(b.send_prefix)],
          IF Len(b.recv_prefix) = 0 THEN 0 ELSE b.recv_prefix[Len(b.recv_prefix)]>> >>]

\* The workspace calls and buffer accesses of the first n stretches of a call,
\* in program order.
RECURSIVE CallTrace(_, _)
CallTrace(events, n) ==
    IF n = 0 THEN <<>>
    ELSE CallTrace(events, n - 1)
             \o WorkspaceCalls(events[n][1], events[n][2], events[n][3], events[n][4])

\* CHECK_EQ(send_prefix_host.back(), num_in) on every rank
PrefixChecks(b) ==
    \A r \in Ranks : At(b[r].send_prefix, comm_size) = Len(in_idx[r])

\* comm_size == 1: "nothing to do, just return original arrays"
PushPassThrough ==
    /\ op = "push" /\ phase = "start" /\ IsSingleRank(comm_size)
    /\ rank' = [r \in Ranks |->
          [rank[r] EXCEPT !.recv_idx = in_idx[r], !.recv_value = InValue(r)]]
    /\ phase' = "done"
    /\ UNCHANGED <<comm_size, op, in_idx, rounds, matched, nonCommVars>>

\* lines 507-556: bucket the items and compute the send-side prefix
PushBucket ==
    /\ op = "push" /\ phase = "start" /\ ~IsSingleRank(comm_size)
    /\ LET b == [r \in Ranks |->
              LET g == GenerateSparseBuffersFromRemainder(
                           comm_size, in_idx[r], InValue(r))
                  scratch == PushBucketScratch(Len(in_idx[r]))
                                 \cup {"send_prefix", "prefix_workspace"}
              IN  Issued(Workspace(
                    [rank[r] EXCEPT
                       !.send_idx    = g.out_idx,
                       !.send_value  = g.out_value,
                       !.send_sum    = g.out_counts,
                       !.send_prefix = ExclusiveSum(g.out_counts, comm_size + 1)],
                    {"send_idx", "send_value", "send_sum"} \cup scratch,
                    scratch), "PushBucket", Len(in_idx[r]))]
       IN  /\ rank' = b
           /\ phase' = IF PrefixChecks(b) THEN "bucketed" ELSE "fatal"
    /\ UNCHANGED <<comm_size, op, in_idx, rounds, matched, nonCommVars>>

\* lines 558-592: exchange the counts and compute the receive-side prefix
PushCounts ==
    /\ op = "push" /\ phase = "bucketed"
    /\ \E last \in [Ranks -> UninitInt64] :
         rank' = [r \in Ranks |->
           LET send_sum == [s \in Ranks |-> rank[s].send_sum]
               recv_sum == AllToAll(r, send_sum, last[r])
           IN  Issued(Workspace(
                 [rank[r] EXCEPT
                    !.recv_prefix = ExclusiveSum(recv_sum, comm_size + 1)],
                 {"recv_sum", "recv_prefix", "prefix_workspace"},
                 {"send_sum", "recv_sum", "recv_prefix", "prefix_workspace"}), "PushCounts", Len(in_idx[r]))]
    /\ rounds' = rounds + 1
    /\ phase' = "counted"
    /\ UNCHANGED <<comm_size, op, in_idx, matched, nonCommVars>>

\* lines 603-625: exchange the (index, value) pairs
PushExchange ==
    /\ op = "push" /\ phase = "counted"
    /\ LET send        == [s \in Ranks |-> rank[s].send_idx]
           send_value  == [s \in Ranks |-> rank[s].send_value]
           send_prefix == [s \in Ranks |-> rank[s].send_prefix]
           recv_prefix == [s \in Ranks |-> rank[s].recv_prefix]
       IN  /\ \E u \in UninitDType :
                rank' = [r \in Ranks |->
                  LET got == SparseAllToAll(r, send, send_value, send_prefix,
                                            rank[r].recv_prefix, u)
                  IN  Issued(Workspace(
                        [rank[r] EXCEPT !.recv_idx = got.idx,
                                        !.recv_value = got.value],
                        {}, {"send_idx", "send_value"}), "PushExchange", Len(in_idx[r]))]
           /\ matched' = (matched /\ RoundMatched(send_prefix, recv_prefix))
    /\ rounds' = rounds + 1
    /\ phase' = IF matched' THEN "done" ELSE "stalled"
    /\ UNCHANGED <<comm_size, op, in_idx, nonCommVars>>

-----------------------------------------------------------------------------
(* SparsePull *)

\* comm_size == 1: "Just return index selection from current local_tensor"
PullPassThrough ==
    /\ op = "pull" /\ phase = "start" /\ IsSingleRank(comm_size)
    /\ rank' = [r \in Ranks |->
          [rank[r] EXCEPT !.result = IndexSelect(LocalTensor(r), in_idx[r])]]
    /\ phase' = "done"
    /\ UNCHANGED <<comm_size, op, in_idx, rounds, matched, nonCommVars>>

\* lines 663-711: bucket the requests and compute the request prefix
PullBucket ==
    /\ op = "pull" /\ phase = "start" /\ ~IsSingleRank(comm_size)
    /\ LET b == [r \in Ranks |->
              LET g == GenerateSparseBufferFromRemainder(comm_size, in_idx[r])
                  scratch == PullBucketScratch(Len(in_idx[r]))
                                 \cup {"request_prefix", "prefix_workspace"}
              IN  Issued(Workspace(
                    [rank[r] EXCEPT
                       !.send_idx    = g.out_idx,
                       !.perm        = g.out_perm,
                       !.send_sum    = g.out_counts,
                       !.send_prefix = ExclusiveSum(g.out_counts, comm_size + 1)],
                    {"send_idx", "perm", "send_sum"} \cup scratch,
                    scratch), "PullBucket", Len(in_idx[r]))]
       IN  /\ rank' = b
           /\ phase' = IF PrefixChecks(b) THEN "bucketed" ELSE "fatal"
    /\ UNCHANGED <<comm_size, op, in_idx, rounds, matched, nonCommVars>>

\* lines 713-756: exchange the counts and compute the response prefix
PullCounts ==
    /\ op = "pull" /\ phase = "bucketed"
    /\ \E last \in [Ranks -> UninitInt64] :
         rank' = [r \in Ranks |->
           LET send_sum == [s \in Ranks |-> rank[s].send_sum]
               recv_sum == AllToAll(r, send_sum, last[r])
           IN  Issued(Workspace(
                 [rank[r] EXCEPT
                    !.recv_prefix = ExclusiveSum(recv_sum, comm_size + 1)],
                 {"recv_sum", "response_prefix", "prefix_workspace"},
                 {"send_sum", "recv_sum", "response_prefix", "prefix_workspace"}), "PullCounts", Len(in_idx[r]))]
    /\ rounds' = rounds + 1
    /\ phase' = "counted"
    /\ UNCHANGED <<comm_size, op, in_idx, matched, nonCommVars>>

\* lines 758-767: "gather requested indexes"
PullRequests ==
    /\ op = "pull" /\ phase = "counted"
    /\ LET send        == [s \in Ranks |-> rank[s].send_idx]
           send_prefix == [s \in Ranks |-> rank[s].send_prefix]
           recv_prefix == [s \in Ranks |-> rank[s].recv_prefix]
       IN  /\ \E u \in UninitDType :
                rank' = [r \in Ranks |->
                  Issued(Workspace(
                    [rank[r] EXCEPT !.recv_idx =
                        AllToAllV(r, send, send_prefix, rank[r].recv_prefix, u)],
                    {"recv_idx"}, {"send_idx"}), "PullRequests", Len(in_idx[r]))]
           /\ matched' = (matched /\ RoundMatched(send_prefix, recv_prefix))
    /\ rounds' = rounds + 1
    /\ phase' = IF matched' THEN "requested" ELSE "stalled"
    /\ UNCHANGED <<comm_size, op, in_idx, nonCommVars>>

\* line 780: the condition under which the rank runs the gather kernel that
\* fills filled_response_value
FulfilLaunched(request_total, response_total) == request_total > 0

\* The rows of filled_response_value that rank r leaves unwritten.
UnfilledRows ==
    {rj \in Ranks \X (1..MaxItems) :
        /\ rj[2] <= At(rank[rj[1]].recv_prefix, comm_size)
        /\ ~FulfilLaunched(At(rank[rj[1]].send_prefix, comm_size),
                           At(rank[rj[1]].recv_prefix, comm_size))}

\* lines 769-796: convert the received indices to local ones and gather the
\* local rows into filled_response_value
PullFulfil ==
    /\ op = "pull" /\ phase = "requested"
    /\ \E u \in [UnfilledRows -> UninitDType] :
         rank' = [r \in Ranks |->
           LET response_total == At(rank[r].recv_prefix, comm_size)
               request_total  == At(rank[r].send_prefix, comm_size)
               local == IF response_total > 0
                        THEN _ConvertToLocalByRemainder(rank[r].recv_idx, comm_size)
                        ELSE rank[r].recv_idx
           IN  Issued(Workspace(
                 [rank[r] EXCEPT
                    !.recv_idx = local,
                    !.response =
                        IF FulfilLaunched(request_total, response_total)
                        THEN IndexSelectMultiKernel(LocalTensor(r), local)
                        ELSE [j \in 1..response_total |-> u[<<r, j>>]]],
                 {"filled_response_value"}, {"recv_idx"}), "PullFulfil", Len(in_idx[r]))]
    /\ phase' = "fulfilled"
    /\ UNCHANGED <<comm_size, op, in_idx, rounds, matched, nonCommVars>>

\* lines 798-822: "send the values" back to the requesters
PullResponses ==
    /\ op = "pull" /\ phase = "fulfilled"
    /\ LET send            == [s \in Ranks |-> rank[s].response]
           response_prefix == [s \in Ranks |-> rank[s].recv_prefix]
           request_prefix  == [s \in Ranks |-> rank[s].send_prefix]
       IN  /\ \E u \in UninitDType :
                rank' = [r \in Ranks |->
                  Issued(Workspace(
                    [rank[r] EXCEPT !.request =
                        AllToAllV(r, send, response_prefix,
                                  rank[r].send_prefix, u)],
                    {"filled_request_value"}, {"filled_response_value"}), "PullResponses", Len(in_idx[r]))]
           /\ matched' = (matched /\ RoundMatched(response_prefix, request_prefix))
    /\ rounds' = rounds + 1
    /\ phase' = IF matched' THEN "answered" ELSE "stalled"
    /\ UNCHANGED <<comm_size, op, in_idx, nonCommVars>>

\* lines 824-846: "permute the values back into the requested order"
PullUnpermute ==
    /\ op = "pull" /\ phase = "answered"
    /\ \E u \in UninitDType :
         rank' = [r \in Ranks |->
           LET num_in == Len(in_idx[r])
           IN  Issued(Workspace(
                 [rank[r] EXCEPT !.result =
                     IF num_in > 0
                     THEN _InversePermKernel(rank[r].request, num_in,
                                             rank[r].perm, u)
                     ELSE <<>>],
                 {}, {"filled_request_value", "perm"}), "PullUnpermute", Len(in_idx[r]))]
    /\ phase' = "done"
    /\ UNCHANGED <<comm_size, op, in_idx, rounds, matched, nonCommVars>>

NextComm ==
    \/ PushPassThrough
    \/ PushBucket
    \/ PushCounts
    \/ PushExchange
    \/ PullPassThrough
    \/ PullBucket
    \/ PullCounts
    \/ PullRequests
    \/ PullFulfil
    \/ PullResponses
    \/ PullUnpermute

SpecComm == InitComm /\ [][NextComm]_vars

\* Every rank issues the same call (SPMD) and NCCL completes a group whose
\* sends and receives pair up, so a step that is possible is taken.
\* The fairness is stated on the phase alone: every step of NextComm moves
\* the call to another phase, and a step is possible exactly while the call
\* has neither returned nor stalled.
CallAdvances ==
    /\ phase \notin {"done", "stalled"}
    /\ phase' \in {"bucketed", "counted", "requested", "fulfilled", "answered",
                  "done", "stalled"}
    /\ phase' # phase

SpecCommFair == SpecComm /\ WF_phase(CallAdvances)

-----------------------------------------------------------------------------
(* Properties of the communication layer *)

\* The indices of `in` destined for rank r under the remainder partition, in
\* their order in `in`.
DestinedFor(in, r) == SelectSeq(in, LAMBDA x : x % comm_size = r)

\* The (index, value) pairs rank s supplies to a push, in order.
SuppliedPairs(s) == [j \in DOMAIN in_idx[s] |-> <<in_idx[s][j], InValue(s)[j]>>]

\* The (index, value) pairs a push returns on rank r, in order.
ReturnedPairs(r) ==
    [j \in DOMAIN rank[r].recv_idx |->
        <<rank[r].recv_idx[j], rank[r].recv_value[j]>>]

\* The row of global index x: row (x div comm_size) of the shard of rank
\* (x mod comm_size).
OwnerRow(x) == At(LocalTensor(x % comm_size), x \div comm_size)

\* C1: for comm_size >= 2 and every assignment of request arrays to the
\* ranks (empty arrays and repeated indices included), SparsePull returns on
\* each rank one row per requested index, in request order: row i is row
\* (idx[i] div comm_size) of the shard of rank (idx[i] mod comm_size).
C1_PullReturnsRequestedRows ==
    (op = "pull" /\ phase = "done" /\ comm_size >= 2) =>
        \A r \in Ranks :
            rank[r].result = [j \in DOMAIN in_idx[r] |-> OwnerRow(in_idx[r][j])]

\* C2: after SparsePush on all ranks of a communicator of size >= 2, the
\* (index, value) pairs returned on rank r are exactly the multiset union,
\* over all ranks s, of the pairs supplied on s whose index mod comm_size is
\* r; each value row stays paired with its own index.
C2_PushDeliversEveryPairOnce ==
    (op = "push" /\ phase = "done" /\ comm_size >= 2) =>
        \A r \in Ranks :
            /\ Len(rank[r].recv_idx) = Len(rank[r].recv_value)
            /\ BagOfSeq(ReturnedPairs(r)) =
                 BagOfSeq(Flatten([k \in 1..comm_size |->
                     SelectSeq(SuppliedPairs(k - 1),
                               LAMBDA p : p[1] % comm_size = r)]))

\* A push on three ranks in which some rank receives pairs from two
\* different senders, one of them sending it two pairs out of order of rank.
C2_Witness ==
    /\ op = "push" /\ phase = "done" /\ comm_size = 3
    /\ \E r \in Ranks, s \in Ranks, t \in Ranks :
          /\ s # t /\ s # r
          /\ Len(DestinedFor(in_idx[s], r)) >= 1
          /\ Len(DestinedFor(in_idx[t], r)) >= 1
          /\ Len(in_idx[s]) >= 2
          /\ in_idx[s][1] % comm_size > in_idx[s][2] % comm_size

\* C3: with comm_size = 1, SparsePush returns exactly the arrays it was
\* given and SparsePull returns the plain gather local_tensor[req_idx[i]];
\* no bucketing, no exchange round and no scratch allocation takes place.
C3_SingleRankPassThrough ==
    (phase = "done" /\ comm_size = 1) =>
        /\ op = "push" =>
              /\ rank[0].recv_idx = in_idx[0]
              /\ rank[0].recv_value = InValue(0)
        /\ op = "pull" =>
              rank[0].result =
                  [j \in DOMAIN in_idx[0] |-> GlobalRow(in_idx[0][j])]
        /\ rank[0].send_sum = <<>> /\ rank[0].send_prefix = <<>>
        /\ rounds = 0
        /\ rank[0].nalloc = 0

\* A single-rank pull of two different rows, the later row first.
C3_Witness ==
    /\ phase = "done" /\ comm_size = 1 /\ op = "pull"
    /\ Len(in_idx[0]) >= 2
    /\ in_idx[0][1] > in_idx[0][2]

\* The ranks that pass a non-empty index array.
Contributing == {r \in Ranks : in_idx[r] # <<>>}

\* C4: when a rank calls SparsePush or SparsePull with an empty index array
\* (comm_size >= 2), all its per-destination send counts are zero before the
\* count exchange, every peer learns a receive count of 0 from it, and what
\* the other ranks exchange among themselves is what their own arrays
\* determine: the indices rank t receives are the buckets for t of the
\* contributing ranks in rank order, and in a pull the rows a contributing
\* rank gets back from a contributing peer are the rows of the indices it
\* sent there.
C4_EmptyContributionIsNeutral ==
    (comm_size >= 2 /\ phase # "start") =>
        \A e \in Ranks \ Contributing :
            /\ rank[e].send_sum = [j \in 1..(comm_size + 1) |-> 0]
            /\ phase \in {"counted", "requested", "fulfilled", "answered", "done"} =>
                  \A r \in Ranks :
                      /\ SendSize(rank[r].recv_prefix, e) = 0
                      /\ At(rank[r].recv_prefix, comm_size) =
                            SumSeq([k \in 1..comm_size |->
                                Len(DestinedFor(in_idx[k - 1], r))])
            /\ (phase = "requested" \/ (op = "push" /\ phase = "done")) =>
                  \A t \in Ranks :
                      rank[t].recv_idx =
                          Flatten([k \in 1..comm_size |->
                              IF k - 1 \in Contributing
                              THEN DestinedFor(in_idx[k - 1], t)
                              ELSE <<>>])
            /\ (op = "pull" /\ phase \in {"answered", "done"}) =>
                  \A s \in Contributing, t \in Contributing :
                      SendSeg(rank[s].request, rank[s].send_prefix, t) =
                          [j \in DOMAIN DestinedFor(in_idx[s], t) |->
                              OwnerRow(DestinedFor(in_idx[s], t)[j])]

\* Three ranks, one with an empty array, the two others exchanging items
\* with each other, after the last round.
C4_Witness ==
    /\ comm_size = 3 /\ phase = "done"
    /\ \E e \in Ranks, s \in Ranks, t \in Ranks :
          /\ in_idx[e] = <<>> /\ s # t /\ s # e /\ t # e
          /\ DestinedFor(in_idx[s], t) # <<>>
          /\ DestinedFor(in_idx[t], s) # <<>>


\* Whether buffer b is held just before call i (from 1) of a sequence of
\* workspace calls that starts with the buffers of `given` held: its latest
\* alloc or free before i is an alloc.
HeldBefore(events, i, given, b) ==
    \E js \in {{j \in 1..(i - 1) : events[j][2] = b /\ events[j][1] # "use"}} :
        IF js = {} THEN b \in given
        ELSE \E j \in js : events[j][1] = "alloc" /\ \A k \in js : k <= j

\* What a sequence of workspace calls leaves: the buffers still held, and
\* whether a call was wrong (a buffer allocated while held, released while
\* not held, or accessed while not held).
WorkspaceScan(events, given) ==
    LET OnBuffer(b) == SelectSeq(events, LAMBDA ev : ev[2] = b)
    IN  [held  |-> {b \in given \cup {events[j][2] : j \in DOMAIN events} :
                       \E calls \in {OnBuffer(b)} :
                           HeldBefore(calls, Len(calls) + 1, given, b)},
         wrong |-> \E b \in {events[j][2] : j \in DOMAIN events} :
                       \E calls \in {OnBuffer(b)} :
                           \E i \in DOMAIN calls :
                               (calls[i][1] = "alloc")
                                   = HeldBefore(calls, i, given, b)]

\* The number of calls of one kind in a sequence of workspace calls.
CountCalls(events, kind) == Len(SelectSeq(events, LAMBDA ev : ev[1] = kind))

\* C15: on every normal return of SparsePush and SparsePull (the
\* comm_size == 1 and num_in == 0 returns included) and of
\* GenerateSparseBufferFromRemainder and GenerateSparseBuffersFromRemainder,
\* every buffer obtained with AllocWorkspace has been released with
\* FreeWorkspace exactly once, and no buffer is accessed after its release.
C15_WorkspaceReleasedOnce ==
    phase = "done"
    => \A r \in Ranks :
        /\ \E calls \in {CallTrace(rank[r].events, Len(rank[r].events))} :
              /\ WorkspaceScan(calls, {}) = [held |-> {}, wrong |-> FALSE]
              /\ CountCalls(calls, "alloc") = CountCalls(calls, "free")
        /\ rank[r].live = {}
        /\ rank[r].nalloc = rank[r].nfree
        /\ LET callee == IF op = "push"
                         THEN GenerateSparseBuffersFromRemainderCalls(Len(in_idx[r]))
                         ELSE GenerateSparseBufferFromRemainderCalls(Len(in_idx[r]))
               given == IF op = "push" THEN {"send_idx", "send_value", "send_sum"}
                        ELSE {"send_idx", "perm", "send_sum"}
           IN  WorkspaceScan(callee, given) = [held |-> given, wrong |-> FALSE]

C15_Witness ==
    /\ phase = "done"
    /\ op = "push"
    /\ comm_size = 2
    /\ Len(in_idx[0]) = 0
    /\ Len(in_idx[1]) = 2
    /\ CountCalls(CallTrace(rank[0].events, Len(rank[0].events)), "free") = 8
    /\ CountCalls(CallTrace(rank[1].events, Len(rank[1].events)), "free") = 13


\* C17: in SparsePull with comm_size >= 2, a rank that received at least one
\* requested index gathers the corresponding local rows into its response
\* buffer before the reverse exchange, however many indices it requested
\* itself (zero included).
C17_ResponderGathersRows ==
    (op = "pull" /\ comm_size >= 2 /\ phase \in {"fulfilled", "answered", "done"})
    => \A r \in Ranks :
           At(rank[r].recv_prefix, comm_size) > 0
           => rank[r].response
                  = IndexSelectMultiKernel(LocalTensor(r), rank[r].recv_idx)


\* C18: in every push and pull, after the count exchange the receive-side
\* prefix on rank r has prefix[s+1] - prefix[s] = the number of items rank s
\* bucketed for r and its last entry is the total destined for r, whatever
\* the unwritten last slot of the receive-count buffer holds; so in every
\* all-to-all-v round a send of n > 0 elements from s to r meets a receive
\* of n elements on r, and once the ranks have entered a round they leave it
\* and the call returns.
C18_CountsMatchAndRoundsEnd ==
    /\ [](comm_size >= 2 /\ phase \in {"counted", "requested", "fulfilled", "answered", "done", "stalled"}
          => /\ \A r \in Ranks :
                 /\ \A s \in Ranks :
                        SendSize(rank[r].recv_prefix, s)
                            = Len(DestinedFor(in_idx[s], r))
                 /\ At(rank[r].recv_prefix, comm_size)
                        = SumSeq([k \in 1..comm_size |->
                                     Len(DestinedFor(in_idx[k - 1], r))])
             /\ RoundMatched([s \in Ranks |-> rank[s].send_prefix],
                             [s \in Ranks |-> rank[s].recv_prefix])
             /\ matched)
    /\ (phase \in {"bucketed", "counted", "fulfilled"}) ~> (phase = "done")

C18_Witness ==
    /\ phase = "done"
    /\ op = "pull"
    /\ comm_size = 3
    /\ rounds = 3
    /\ in_idx[0] = <<1, 2>>
    /\ in_idx[2] = <<1>>
    /\ rank[1].recv_prefix = <<0, 1, 1, 2>>


\* C19: for comm_size >= 2 and non-negative indices, bucketing gives index x
\* the destination x mod comm_size, a rank in [0, comm_size), through the
\* mask kernel exactly when comm_size is a power of two; the permutation is
\* a bijection on 0..num_in-1 that orders the items by destination ascending
\* and keeps the input order within one destination; out_counts[d] is the
\* number of items of destination d and the counts sum to num_in.
C19_BucketingIsStableByDestination ==
    (comm_size >= 2 /\ phase = "bucketed")
    => /\ UsesRemainder(comm_size) = (\A k \in 0..comm_size : comm_size # Pow2(k))
       /\ \A r \in Ranks :
            LET in     == in_idx[r]
                num_in == Len(in)
                dest   == MapProc(in, comm_size)
                perm   == IF op = "pull" THEN rank[r].perm
                          ELSE GenerateSparseBuffersFromRemainder(
                                   comm_size, in, Range(0, num_in)).out_value
            IN  /\ \A j \in 1..num_in :
                     /\ dest[j] = in[j] % comm_size
                     /\ dest[j] \in 0..(comm_size - 1)
                     /\ ~UsesRemainder(comm_size)
                            => dest[j] = BitAnd(in[j], comm_size - 1)
                /\ Len(perm) = num_in
                /\ {perm[j] : j \in 1..num_in} = 0..(num_in - 1)
                /\ \A i \in 1..num_in, j \in 1..num_in :
                     i < j => \/ At(dest, perm[i]) < At(dest, perm[j])
                              \/ /\ At(dest, perm[i]) = At(dest, perm[j])
                                 /\ perm[i] < perm[j]
                /\ rank[r].send_idx = [j \in 1..num_in |-> At(in, perm[j])]
                /\ \A d \in Ranks :
                     At(rank[r].send_sum, d)
                         = Cardinality({j \in 1..num_in : in[j] % comm_size = d})
                /\ SumSeq(SubSeq(rank[r].send_sum, 1, comm_size)) = num_in

C19_Witness ==
    /\ phase = "bucketed"
    /\ op = "pull"
    /\ comm_size = 2
    /\ in_idx[0] = <<3, 0, 1>>
    /\ rank[0].perm = <<1, 0, 2>>
    /\ rank[0].send_idx = <<0, 3, 1>>
    /\ rank[0].send_sum = <<1, 2, 0>>

-----------------------------------------------------------------------------
(* NCCLUniqueId: the identifier and its hexadecimal string *)

\* sizeof(ncclUniqueId::internal)
NCCL_UNIQUE_ID_BYTES == 128

\* Largest number of characters a tampered string loses or gains.
MaxLenDelta == 2

\* A char of id_.internal (signed, 8 bits).
Chars == (-128)..127

HexDigits == <<"0", "1", "2", "3", "4", "5", "6", "7", "8", "9",
               "a", "b", "c", "d", "e", "f">>

\* (mutant) the char is widened to int as it is, sign included
ToUint8_SignExtended(c) == c

\* static_cast<uint8_t>(c)
ToUint8(c) == c % 256

\* operator<<(int) under std::hex: the digits of the value as a 32-bit
\* unsigned number, without leading zeros.  A negative int is its two's
\* complement: eight digits, each 15 minus the digit of -num-1.
RECURSIVE HexOfUnsigned(_)
HexOfUnsigned(n) ==
    IF n < 16 THEN <<HexDigits[n + 1]>>
    ELSE Append(HexOfUnsigned(n \div 16), HexDigits[(n % 16) + 1])
RECURSIVE Pow16(_)
Pow16(k) == IF k <= 0 THEN 1 ELSE 16 * Pow16(k - 1)
HexOf(num) ==
    IF num >= 0 THEN HexOfUnsigned(num)
    ELSE [j \in 1..8 |->
            HexDigits[(15 - (((-num - 1) \div Pow16(8 - j)) % 16)) + 1]]

\* std::setw(w) << std::setfill(fill): pad on the left up to w characters
SetW(w, fill, text) ==
    [j \in 1..(Max(w, Len(text)) - Len(text)) |-> fill] \o text

\* NCCLUniqueId::ToString before its length check
ToStringChars(internal) ==
    Flatten([b \in 1..NCCL_UNIQUE_ID_BYTES |->
        SetW(2, "0", HexOf(ToUint8(internal[b])))])

\* The value of a hexadecimal digit, -1 for any other character.
HexValue(ch) ==
    IF \E d \in 1..16 : HexDigits[d] = ch
    THEN (CHOOSE d \in 1..16 : HexDigits[d] = ch) - 1
    ELSE -1

\* std::strtol(text, nullptr, 16) on a text of digits: the value of the
\* longest prefix of hexadecimal digits, 0 when there is none.
RECURSIVE StrToL16From(_, _)
StrToL16From(acc, text) ==
    IF text = <<>> \/ HexValue(Head(text)) < 0 THEN acc
    ELSE StrToL16From(16 * acc + HexValue(Head(text)), Tail(text))
StrToL16(text) == StrToL16From(0, text)

\* The conversion of a long in 0..255 to char on assignment.
ToChar(v) == IF v % 256 >= 128 THEN (v % 256) - 256 ELSE v % 256

\* str.substr(pos, 2)
SubStr2(str, pos) == SubSeq(str, pos + 1, Min(pos + 2, Len(str)))

\* CHECK_EQ(str.length(), NCCL_UNIQUE_ID_BYTES * 2) of FromString, and the
\* same check ToString makes on its result
LengthOk(str) == Len(str) = NCCL_UNIQUE_ID_BYTES * 2

\* NCCLUniqueId::FromString after its length check
FromStringChars(str) ==
    [b \in 1..NCCL_UNIQUE_ID_BYTES |-> ToChar(StrToL16(SubStr2(str, (b - 1) * 2)))]

\* Identifiers explored: a background pattern with every char value at one
\* of the probed positions.
ProbePositions == {1, 2, NCCL_UNIQUE_ID_BYTES - 1, NCCL_UNIQUE_ID_BYTES}
Background(kind, b) == IF kind = "zero" THEN 0 ELSE ((37 * b) % 256) - 128

InitUid ==
    /\ \E kind \in {"zero", "varied"}, p \in ProbePositions, v \in Chars :
          uid = [b \in 1..NCCL_UNIQUE_ID_BYTES |->
                    IF b = p THEN v ELSE Background(kind, b)]
    /\ uidStr = <<>>
    /\ uidParsed = <<>>
    /\ uidPhase = "fresh"
    /\ IdleComm
    /\ IdleCsr
    /\ IdleCoo
    /\ IdleKern
    /\ IdleAtom
    /\ IdleWalk
    /\ IdleUnion

\* NCCLUniqueId::ToString
UidToString ==
    /\ uidPhase = "fresh"
    /\ LET result == ToStringChars(uid)
       IN  IF LengthOk(result)
           THEN uidStr' = result /\ uidPhase' = "stringed"
           ELSE uidStr' = <<>> /\ uidPhase' = "fatal"
    /\ UNCHANGED <<uid, uidParsed, nonUidVars>>

\* The string loses its last k characters, or gains k, on its way to a peer.
Tamper ==
    /\ uidPhase = "stringed"
    /\ \E k \in 1..MaxLenDelta :
          \/ uidStr' = SubSeq(uidStr, 1, Len(uidStr) - k)
          \/ uidStr' = uidStr \o [j \in 1..k |-> "0"]
          \/ uidStr' = SubSeq(uidStr, k + 1, Len(uidStr))
    /\ uidPhase' = "tampered"
    /\ UNCHANGED <<uid, uidParsed, nonUidVars>>

\* NCCLUniqueId::FromString on a fresh identifier object
UidFromString ==
    /\ uidPhase \in {"stringed", "tampered"}
    /\ IF LengthOk(uidStr)
       THEN uidParsed' = FromStringChars(uidStr) /\ uidPhase' = "parsed"
       ELSE uidParsed' = uidParsed /\ uidPhase' = "rejected"
    /\ UNCHANGED <<uid, uidStr, nonUidVars>>

NextUid ==
    \/ UidToString
    \/ Tamper
    \/ UidFromString

SpecUid == InitUid /\ [][NextUid]_vars

\* C8: ToString always yields exactly 256 hexadecimal characters, two per
\* identifier byte in byte order, with a leading zero for byte values below
\* 16; FromString(ToString(id)) reproduces every byte of id; FromString
\* rejects any string whose length is not 256.
C8_UniqueIdHexRoundTrip ==
    /\ uidPhase # "fatal"
    /\ uidPhase = "stringed" =>
          /\ Len(uidStr) = 256
          /\ \A b \in 1..NCCL_UNIQUE_ID_BYTES :
                LET byte == IF uid[b] < 0 THEN uid[b] + 256 ELSE uid[b]
                IN  /\ uidStr[2 * b - 1] = HexDigits[(byte \div 16) + 1]
                    /\ uidStr[2 * b] = HexDigits[(byte % 16) + 1]
    /\ uidPhase = "parsed" => (Len(uidStr) = 256 /\ uidParsed = uid)
    /\ (uidPhase \in {"parsed", "rejected"} /\ Len(uidStr) # 256) =>
          (uidPhase = "rejected" /\ uidParsed = <<>>)

\* An identifier with a byte below 16 and a byte of 128 or more (a negative
\* char) went through ToString and FromString.
C8_Witness ==
    /\ uidPhase = "parsed"
    /\ \E b \in 1..NCCL_UNIQUE_ID_BYTES : uid[b] \in 1..15
    /\ \E b \in 1..NCCL_UNIQUE_ID_BYTES : uid[b] < 0
    /\ uid[NCCL_UNIQUE_ID_BYTES] = -1
    /\ uidParsed[NCCL_UNIQUE_ID_BYTES] = -1

-----------------------------------------------------------------------------
(* CSR matrices: CSRIsSorted, CSRSort_, CSRSortByTag *)

\* Largest number of entries (nnz) of a matrix.
MaxNnz == 3

CsrRowIds == 0..1
CsrColIds == 0..2
TagIds == 0..1
NumTagsChoices == {1, 2}

\* aten::CSRHasData: the data array is not the null (zero-length) array
CSRHasData(m) == Len(m.data) > 0

\* The edge id of the entry at position ptr (from 0): data[ptr], or ptr when
\* the matrix has no data array.
EdgeIdAt(m, ptr) == IF CSRHasData(m) THEN At(m.data, ptr) ELSE ptr

\* The (column, edge id) pairs of row r, in slice order.
RowPairs(m, r) ==
    [j \in 1..(At(m.indptr, r + 1) - At(m.indptr, r)) |->
        <<At(m.indices, At(m.indptr, r) + j - 1),
          EdgeIdAt(m, At(m.indptr, r) + j - 1)>>]

PermsOf(n) ==
    {f \in [1..n -> 1..n] : \A a \in 1..n, b \in 1..n : f[a] = f[b] => a = b}

\* Data arrays of n distinct edge ids 0..n-1: the rotations of 0..n-1 and
\* its reversal.
EdgeIdArrays(n) ==
    {[j \in 1..n |-> (j - 1 + k) % n] : k \in 0..(n - 1)}
        \cup {[j \in 1..n |-> n - j]}

\* Every CSRMatrix with the two rows, up to MaxNnz entries over the three
\* columns, and either no data array or one of EdgeIdArrays as edge ids.
CSRInputs ==
    UNION {
      { [num_rows |-> Cardinality(CsrRowIds),
         num_cols |-> Cardinality(CsrColIds),
         indptr   |-> <<0, k, n>>,
         indices  |-> ind,
         data     |-> d,
         sorted   |-> FALSE] :
          k \in 0..n,
          ind \in [1..n -> CsrColIds],
          d \in {<<>>} \cup EdgeIdArrays(n) }
      : n \in 0..MaxNnz}

\* CSRIsSorted
CSRIsSorted(m) ==
    \A row \in 0..(m.num_rows - 1) :
        \A i \in (At(m.indptr, row) + 1)..(At(m.indptr, row + 1) - 1) :
            ~(At(m.indices, i - 1) > At(m.indices, i))

\* The comparator CSRSort_ passes to std::sort
ShuffleLess(e1, e2) == e1[1] < e2[1]

\* std::sort(reorder_vec.begin(), reorder_vec.end(), comp): the results it
\* can leave: every arrangement of the elements in which no element is
\* followed by one that compares less.  The order of elements that compare
\* equal is unspecified.
StdSort(v) ==
    {[j \in DOMAIN v |-> v[f[j]]] : f \in
        {g \in PermsOf(Len(v)) :
            \A a \in 1..Len(v), b \in 1..Len(v) :
                a < b => ~ShuffleLess(v[g[b]], v[g[a]])}}

\* The ways to pick one element of outs[r] for every r.
PickEach(outs) ==
    {c \in [DOMAIN outs -> UNION {outs[r] : r \in DOMAIN outs}] :
        \A r \in DOMAIN outs : c[r] \in outs[r]}

\* (mutant) the pairs are written from the start of the arrays
WriteRow_AtArrayStart(m, row, pairs) ==
    [m EXCEPT !.indices = [j \in DOMAIN @ |->
                             IF j <= Len(pairs) THEN pairs[j][1] ELSE @[j]],
              !.data    = [j \in DOMAIN @ |->
                             IF j <= Len(pairs) THEN pairs[j][2] ELSE @[j]]]

\* col[i] = reorder_vec[i].first; eid[i] = reorder_vec[i].second with
\* col = indices_data + indptr_data[row] and eid = eid_data + indptr_data[row]
WriteRow(m, row, pairs) ==
    [m EXCEPT !.indices = [j \in DOMAIN @ |->
                             IF /\ j > At(m.indptr, row)
                                /\ j <= At(m.indptr, row) + Len(pairs)
                             THEN pairs[j - At(m.indptr, row)][1] ELSE @[j]],
              !.data    = [j \in DOMAIN @ |->
                             IF /\ j > At(m.indptr, row)
                                /\ j <= At(m.indptr, row) + Len(pairs)
                             THEN pairs[j - At(m.indptr, row)][2] ELSE @[j]]]

\* One iteration of the row loop, on the arrays as they are when it runs.
SortRow(m, row) ==
    {WriteRow(m, row, v) : v \in StdSort(RowPairs(m, row))}

\* Threads of the parallel region.
CsrThreadIds == 0..1

\* #pragma omp for: every assignment of the rows to the threads, and for each
\* the orders in which the iterations can run: a thread runs its own rows in
\* increasing order, rows of different threads run in any order.
RowSchedules(num_rows) ==
    UNION {
      {order \in PermsOf(num_rows) :
          \A a \in 1..num_rows, b \in 1..num_rows :
              (a < b /\ assign[order[a] - 1] = assign[order[b] - 1])
                  => order[a] < order[b]}
      : assign \in [0..(num_rows - 1) -> CsrThreadIds]}

\* The arrays after the first n iterations of a schedule.
RECURSIVE RunRows(_, _, _)
RunRows(m, order, n) ==
    IF n = 0 THEN {m}
    ELSE UNION {SortRow(prev, order[n] - 1) : prev \in RunRows(m, order, n - 1)}

\* CSRSort_: every result the call can leave in *csr.  The data array is
\* first materialised as 0..nnz-1 when absent; then the rows are sorted one
\* iteration each under some schedule; sorted = true.
CSRSort_(m) ==
    UNION {
      UNION {
        {[out EXCEPT !.sorted = TRUE] : out \in RunRows(withData, order, m.num_rows)}
        : order \in RowSchedules(m.num_rows)}
      : withData \in {IF ~CSRHasData(m)
                      THEN [m EXCEPT !.data = Range(0, Len(m.indices))]
                      ELSE m}}

InitCsr ==
    /\ csrIn \in CSRInputs
    /\ csr = csrIn
    /\ csrOnce = <<>>
    /\ csrPhase = "fresh"
    /\ isSorted = "none"
    /\ tagCall = <<>>
    /\ IdleComm
    /\ IdleUid
    /\ IdleCoo
    /\ IdleKern
    /\ IdleAtom
    /\ IdleWalk
    /\ IdleUnion

\* CSRSort_(&csr)
CallCSRSort ==
    /\ csrPhase \in {"fresh", "sorted1"}
    /\ \E out \in CSRSort_(csr) :
          /\ csr' = out
          /\ csrOnce' = IF csrPhase = "fresh" THEN out ELSE csrOnce
    /\ csrPhase' = IF csrPhase = "fresh" THEN "sorted1" ELSE "sorted2"
    /\ isSorted' = "none"
    /\ UNCHANGED <<csrIn, tagCall, nonCsrVars>>

\* CSRIsSorted(csr)
CallCSRIsSorted ==
    /\ csrPhase \in {"fresh", "sorted1", "sorted2"}
    /\ isSorted = "none"
    /\ isSorted' = IF CSRIsSorted(csr) THEN "true" ELSE "false"
    /\ UNCHANGED <<csrIn, csr, csrOnce, csrPhase, tagCall, nonCsrVars>>

\* What an element of the caller's output arrays holds until it is written.
Unwritten == -1

\* What a read of csr->data->data[ptr] can give when the matrix has no data
\* array (the read is outside the zero-length buffer): any word.  Every
\* position of the matrix is a value of its own; nnz stands for every word
\* that is no position of the matrix (negative numbers, addresses).
UninitEid(m) == 0..Len(m.indices)

\* CHECK_LT(tag, num_tags)
TagCheck(tag, num_tags) == tag < num_tags

\* tag_data[indices_data[ptr]]
TagOf(m, tags, ptr) == tags[At(m.indices, ptr)]

\* The positions ptr of row src: indptr[src] .. indptr[src + 1] - 1
RowPtrs(m, src) == At(m.indptr, src)..(At(m.indptr, src + 1) - 1)

\* The count loop: tag_pos_row[tag + 1] is incremented once per entry.
CountTags(m, src, tags, num_tags) ==
    [t \in 0..num_tags |->
        Cardinality({ptr \in RowPtrs(m, src) : TagOf(m, tags, ptr) + 1 = t})]

\* The cumulate loop: tag_pos_row[tag] += tag_pos_row[tag - 1], tag = 1..num_tags
RECURSIVE CumulateTags(_, _)
CumulateTags(counts, tag) ==
    IF tag = 0 THEN counts[0]
    ELSE counts[tag] + CumulateTags(counts, tag - 1)

\* tag_pos_row after the count and cumulate loops of row src
TagPosRow(m, src, tags, num_tags) ==
    LET counts == CountTags(m, src, tags, num_tags)
    IN  [t \in 0..num_tags |-> CumulateTags(counts, t)]

\* tag_pos_row[t]; the row has the counters 0..num_tags
TagPosAt(row, t) == IF t \in DOMAIN row THEN row[t] ELSE 0

\* offset = tag_pos_row[tag] + pointer[tag]: pointer[tag] is the number of
\* earlier entries of the row with the same tag.
PlaceOffset(m, src, tags, tag_pos_row, ptr) ==
    TagPosAt(tag_pos_row, TagOf(m, tags, ptr))
    + Cardinality({q \in RowPtrs(m, src) :
                      q < ptr /\ TagOf(m, tags, q) = TagOf(m, tags, ptr)})

\* One iteration of the loop over rows: whether a CHECK fails, the row of
\* tag_pos, and the offset each entry of the row is written at.
SortByTagRow(m, src, tags, num_tags) ==
    LET tag_pos_row == TagPosRow(m, src, tags, num_tags)
        offset == [ptr \in RowPtrs(m, src) |->
                      PlaceOffset(m, src, tags, tag_pos_row, ptr)]
    IN  [fails |-> \E ptr \in RowPtrs(m, src) :
                      \/ ~TagCheck(TagOf(m, tags, ptr), num_tags)
                      \/ ~(offset[ptr]
                             < TagPosAt(tag_pos_row, TagOf(m, tags, ptr) + 1)),
         tag_pos_row |-> tag_pos_row,
         offset |-> offset]

\* (mutant) only a failure in the first row stops the loop
RowsDone_FirstRowOnly(m, scan) ==
    IF m.num_rows > 0 /\ scan[0].fails THEN {} ELSE 0..(m.num_rows - 1)

\* The rows the loop runs to the end of: those before the first failing row.
RowsDone(m, scan) ==
    {src \in 0..(m.num_rows - 1) : \A r \in 0..src : ~scan[r].fails}

\* eid = eid_data[ptr], eid_data = csr->data->data; eids holds what the reads
\* outside a missing data buffer give
EidRead(m, eids, ptr) == IF CSRHasData(m) THEN At(m.data, ptr) ELSE eids[ptr]

\* The caller's output matrix before the call: same shape, arrays unwritten.
OutputAtEntry(m) ==
    [m EXCEPT !.indices = [j \in DOMAIN m.indices |-> Unwritten],
              !.data    = [j \in DOMAIN m.indices |-> Unwritten]]

\* For every cell of the output arrays (from 1), the input position the
\* placement loop of the rows in done writes there last, -1 when it writes
\* none: the cell of ptr is start + offset
PlacedFrom(m, scan, done) ==
    [j \in DOMAIN m.indices |->
        LET from == UNION {{ptr \in RowPtrs(m, src) :
                              At(m.indptr, src) + scan[src].offset[ptr] = j - 1}
                           : src \in done}
        IN  IF from = {} THEN -1
            ELSE CHOOSE ptr \in from : \A q \in from : q <= ptr]

\* The output arrays after the placement loop:
\* out_indices_data[start + offset] = dst, out_eid_data[start + offset] = eid
PlaceRows(m, last, eids) ==
    [OutputAtEntry(m) EXCEPT
        !.indices = [j \in DOMAIN m.indices |->
                        IF last[j] = -1 THEN Unwritten
                        ELSE At(m.indices, last[j])],
        !.data    = [j \in DOMAIN m.indices |->
                        IF last[j] = -1 THEN Unwritten
                        ELSE EidRead(m, eids, last[j])]]

\* The reads of eid_data the placement loop makes outside a data buffer.
WildReads(m, done) ==
    IF CSRHasData(m) THEN {}
    ELSE UNION {RowPtrs(m, src) : src \in done}

\* What the reads in ptrs give: one of the UninitEid values for each read,
\* independently of the other reads.
WildValues(m, ptrs) ==
    IF ptrs = {} THEN {<<>>}
    ELSE [ptrs -> UninitEid(m)]

\* The tag arrays a call is made with: one tag per column; the tag of a
\* column no entry has is never read and is kept 0.
TagArrays(m) ==
    {tags \in [CsrColIds -> TagIds] :
        \A c \in CsrColIds :
            (\A j \in DOMAIN m.indices : m.indices[j] # c) => tags[c] = 0}

\* CSRSortByTag(&csr, tag_array, num_tags, &output), called on the matrix as
\* the caller built it
CallCSRSortByTag ==
    /\ csrPhase = "fresh"
    /\ isSorted = "none"
    /\ \E tags \in TagArrays(csr), num_tags \in NumTagsChoices :
          \E scan \in {[src \in 0..(csr.num_rows - 1) |->
                          SortByTagRow(csr, src, tags, num_tags)]} :
          \E done \in {RowsDone(csr, scan)} :
          \E last \in {PlacedFrom(csr, scan, done)} :
          LET ok == done = 0..(csr.num_rows - 1)
          IN  \E eids \in WildValues(csr, WildReads(csr, done)) :
                /\ tagCall' =
                      [tags     |-> tags,
                       num_tags |-> num_tags,
                       returned |-> ok,
                       tag_pos  |-> IF ok
                                    THEN [r \in 0..(csr.num_rows - 1) |->
                                            scan[r].tag_pos_row]
                                    ELSE <<>>,
                       output   |-> IF ok
                                    THEN [PlaceRows(csr, last, eids)
                                            EXCEPT !.sorted = FALSE]
                                    ELSE PlaceRows(csr, last, eids)]
                /\ csrPhase' = IF ok THEN "tagged" ELSE "tagfatal"
    /\ isSorted' = "none"
    /\ UNCHANGED <<csrIn, csr, csrOnce, nonCsrVars>>

NextCsr ==
    \/ CallCSRSort
    \/ CallCSRIsSorted
    \/ CallCSRSortByTag

SpecCsr == InitCsr /\ [][NextCsr]_vars

-----------------------------------------------------------------------------
(* Properties of the CSR operations *)

\* The bag of (column, edge id) pairs of row r.
RowBag(m, r) == BagOfSeq(RowPairs(m, r))

\* C5: applying Sort twice yields the same indptr, indices and data as
\* applying it once, and IsSorted returns true on the result of Sort.
C5_SortIsIdempotent ==
    /\ csrPhase = "sorted2" =>
          /\ csr.indptr = csrOnce.indptr
          /\ csr.indices = csrOnce.indices
          /\ csr.data = csrOnce.data
    /\ (csrPhase \in {"sorted1", "sorted2"} /\ isSorted # "none") =>
          isSorted = "true"

\* C20: Sort leaves num_rows, num_cols and indptr unchanged and, for every
\* row, the multiset of (column, edge id) pairs of the row's slice (the edge
\* ids being the positions 0..nnz-1 when the matrix had no data array); every
\* slice is ordered by column ascending and sorted = true; the columns that
\* result are the same for every assignment of the rows to threads and every
\* order in which the iterations run.
C20_SortFrameAndEffect ==
    csrPhase \in {"sorted1", "sorted2"}
    => /\ csr.num_rows = csrIn.num_rows
       /\ csr.num_cols = csrIn.num_cols
       /\ csr.indptr = csrIn.indptr
       /\ Len(csr.indices) = Len(csrIn.indices)
       /\ Len(csr.data) = Len(csrIn.indices)
       /\ \A r \in 0..(csrIn.num_rows - 1) :
            /\ RowBag(csr, r) = RowBag(csrIn, r)
            /\ \A i \in (At(csr.indptr, r) + 1)..(At(csr.indptr, r + 1) - 1) :
                   At(csr.indices, i - 1) <= At(csr.indices, i)
       /\ csr.sorted = TRUE
       /\ (csrPhase = "sorted1" /\ isSorted = "none")
              => \A out \in CSRSort_(csrIn) : out.indices = csr.indices

C20_Witness ==
    /\ csrPhase = "sorted1"
    /\ csrIn.indptr = <<0, 1, 3>>
    /\ csrIn.indices = <<2, 1, 0>>
    /\ csrIn.data = <<>>
    /\ csr.indices = <<2, 0, 1>>
    /\ csr.data = <<0, 2, 1>>

\* The entries of tagCall.output at row-relative positions lo .. hi-1 of row r.
OutputCols(r, lo, hi) ==
    {At(tagCall.output.indices, At(csr.indptr, r) + k) : k \in lo..(hi - 1)}

\* C6: after SortByTag with all tags < num_tags, for every row r and tag t
\* the output entries at row-relative positions tag_pos[r][t] ..
\* tag_pos[r][t+1]-1 all have a column whose tag is t; tag_pos[r][0] = 0,
\* tag_pos[r] is non-decreasing, tag_pos[r][t+1] - tag_pos[r][t] is the number
\* of entries of row r with tag t, and the output row holds the same
\* (column, edge id) pairs as the input row.
C6_SortByTagPartitions ==
    csrPhase = "tagged" =>
        \A r \in 0..(csr.num_rows - 1) :
            LET pos == tagCall.tag_pos[r]
            IN  /\ pos[0] = 0
                /\ \A t \in 0..(tagCall.num_tags - 1) :
                      /\ pos[t] <= pos[t + 1]
                      /\ \A c \in OutputCols(r, pos[t], pos[t + 1]) :
                            tagCall.tags[c] = t
                      /\ pos[t + 1] - pos[t] =
                            Cardinality({ptr \in RowPtrs(csr, r) :
                                            TagOf(csr, tagCall.tags, ptr) = t})
                /\ RowBag(tagCall.output, r) = RowBag(csr, r)

\* Some entry of the matrix has a column whose tag is >= num_tags.
HasBadTag ==
    \E ptr \in 0..(Len(csr.indices) - 1) :
        TagOf(csr, tagCall.tags, ptr) >= tagCall.num_tags

\* C10: SortByTag fails and returns no tag-position table whenever some
\* entry of the matrix has a column whose tag is >= num_tags.
C10_SortByTagRejectsLargeTag ==
    (csrPhase \in {"tagged", "tagfatal"} /\ HasBadTag) =>
        /\ csrPhase = "tagfatal"
        /\ ~tagCall.returned
        /\ tagCall.tag_pos = <<>>

\* The call failed on a tag in the second row after the first row, which has
\* entries and only tags < num_tags, had been placed.
C10_Witness ==
    /\ csrPhase = "tagfatal"
    /\ RowPtrs(csr, 0) # {}
    /\ \A ptr \in RowPtrs(csr, 0) : TagOf(csr, tagCall.tags, ptr) < tagCall.num_tags
    /\ \E ptr \in RowPtrs(csr, 1) : TagOf(csr, tagCall.tags, ptr) >= tagCall.num_tags
    /\ tagCall.tag_pos = <<>>

\* C23: for a CSR with no data array, SortByTag writes into the output's data
\* array, at the place each entry is moved to, that entry's original position
\* in the input (its implicit edge id).
C23_SortByTagWritesImplicitEids ==
    (csrPhase = "tagged" /\ ~CSRHasData(csr)) =>
        \A src \in 0..(csr.num_rows - 1) :
            LET row == SortByTagRow(csr, src, tagCall.tags, tagCall.num_tags)
            IN  \A ptr \in RowPtrs(csr, src) :
                    At(tagCall.output.data,
                       At(csr.indptr, src) + row.offset[ptr]) = ptr

-----------------------------------------------------------------------------
(* COO matrices: queries, COOSliceRows and COOToCSR *)

\* Largest number of OpenMP threads of a parallel region.
MaxThreads == 3

CooRowIds == 0..1
CooColIds == 0..1
\* Lengths of the id arrays of a lookup.
QueryLens == 0..2

\* What a read outside an id array gives: any word.  Every row or column id
\* of the matrix is a value of its own; the values that are no id of it are
\* stood for by -1 (the negative ones) and by the first number past the ids
\* (the larger ones, addresses included).
UninitId == {-1} \cup 0..Max(Cardinality(CooRowIds), Cardinality(CooColIds))

\* What a cell of an NDArray::Empty holds until it is written.
UninitCell == {0, 7}

\* aten::COOHasData: the data array is not the null (zero-length) array
COOHasData(m) == Len(m.data) > 0

\* data ? data[i] : i
CooEid(m, i) == IF COOHasData(m) THEN At(m.data, i) ELSE i

\* The positions 0 .. nnz-1 of the entries.
CooPtrs(m) == 0..(Len(m.row) - 1)

\* The row array is non-decreasing.
RowsNonDecreasing(m) ==
    \A i \in CooPtrs(m), j \in CooPtrs(m) : i < j => At(m.row, i) <= At(m.row, j)

\* The columns are non-decreasing within each run of equal rows.
ColsNonDecreasing(m) ==
    \A i \in CooPtrs(m), j \in CooPtrs(m) :
        (i < j /\ At(m.row, i) = At(m.row, j)) => At(m.col, i) <= At(m.col, j)

\* Every COOMatrix over the two rows and two columns with up to MaxNnz
\* entries, with no data array or with the edge ids nnz-1 .. 0, and with
\* flags that are set only when the order they promise is there.
COOInputs ==
    UNION {
      { m \in [num_rows   : {Cardinality(CooRowIds)},
               num_cols   : {Cardinality(CooColIds)},
               row        : [1..n -> CooRowIds],
               col        : [1..n -> CooColIds],
               data       : {<<>>, [j \in 1..n |-> n - j]},
               row_sorted : BOOLEAN,
               col_sorted : BOOLEAN] :
          /\ m.row_sorted => RowsNonDecreasing(m)
          /\ m.col_sorted => (m.row_sorted /\ ColsNonDecreasing(m)) }
      : n \in 0..MaxNnz}

\* CHECK(row >= 0 && row < coo.num_rows)
RowInRange(m, row) == row >= 0 /\ row < m.num_rows

\* CHECK(col >= 0 && col < coo.num_cols)
ColInRange(m, col) == col >= 0 /\ col < m.num_cols

\* The outcome of a call whose CHECK failed: LOG(FATAL), nothing returned.
Fatal == [failed |-> TRUE, ret |-> <<>>]
Returned(v) == [failed |-> FALSE, ret |-> v]

\* SelectSeq over positions: the positions of ptrs that satisfy keep, ascending.
RECURSIVE Ascending(_)
Ascending(ptrs) ==
    IF ptrs = {} THEN <<>>
    ELSE LET lo == CHOOSE x \in ptrs : \A y \in ptrs : x <= y
         IN  <<lo>> \o Ascending(ptrs \ {lo})

\* COOIsNonZero(coo, row, col)
COOIsNonZero(m, row, col) ==
    IF ~RowInRange(m, row) \/ ~ColInRange(m, col) THEN Fatal
    ELSE Returned(\E i \in CooPtrs(m) : At(m.row, i) = row /\ At(m.col, i) = col)

\* COOGetRowNNZ(coo, row)
COOGetRowNNZ(m, row) ==
    IF ~RowInRange(m, row) THEN Fatal
    ELSE Returned(Cardinality({i \in CooPtrs(m) : At(m.row, i) = row}))

\* COOGetRowDataAndIndices(coo, row): the pair (data, indices)
COOGetRowDataAndIndices(m, row) ==
    IF ~RowInRange(m, row) THEN Fatal
    ELSE LET hits == Ascending({i \in CooPtrs(m) : At(m.row, i) = row})
         IN  Returned(<<[k \in DOMAIN hits |-> CooEid(m, hits[k])],
                        [k \in DOMAIN hits |-> At(m.col, hits[k])]>>)

\* CHECK((rowlen == collen) || (rowlen == 1) || (collen == 1))
ShapesMatch(rows, cols) ==
    Len(rows) = Len(cols) \/ Len(rows) = 1 \/ Len(cols) = 1

\* row_stride / col_stride: 0 when the array of length 1 is broadcast
Stride(len, other) == IF len = 1 /\ other # 1 THEN 0 ELSE 1

\* ids[k] of an id array; a read past its end gives junk
IdAt(ids, k, junk) == IF k < Len(ids) THEN At(ids, k) ELSE junk

\* std::lower_bound(coo_row, coo_row + nnz, row_id) - coo_row
LowerBound(m, row_id) ==
    CHOOSE k \in 0..Len(m.row) :
        /\ k = Len(m.row) \/ At(m.row, k) >= row_id
        /\ \A j \in 0..(k - 1) : At(m.row, j) < row_id

\* The position COOGetData finds for (row_id, col_id), -1 when it finds none:
\* on a row_sorted matrix the scan runs from the lower bound while the row
\* is row_id, otherwise over every position.
FindFirst(m, row_id, col_id) ==
    LET scanned == IF m.row_sorted
                   THEN {idx \in CooPtrs(m) :
                            /\ idx >= LowerBound(m, row_id)
                            /\ \A j \in LowerBound(m, row_id)..idx :
                                  At(m.row, j) = row_id}
                   ELSE CooPtrs(m)
        hits == {idx \in scanned : At(m.row, idx) = row_id /\ At(m.col, idx) = col_id}
    IN  IF hits = {} THEN -1
        ELSE CHOOSE idx \in hits : \A other \in hits : idx <= other

\* COOGetData(coo, rows, cols)
COOGetData(m, rows, cols, junk) ==
    IF ~ShapesMatch(rows, cols) THEN Fatal
    ELSE LET retlen == Max(Len(rows), Len(cols))
             row_stride == Stride(Len(rows), Len(cols))
             col_stride == Stride(Len(cols), Len(rows))
         IN  Returned([q \in 1..retlen |->
                 LET idx == FindFirst(m, IdAt(rows, (q - 1) * row_stride, junk),
                                         IdAt(cols, (q - 1) * col_stride, junk))
                 IN  IF idx = -1 THEN -1 ELSE CooEid(m, idx)])

\* The lookup count from which COOGetDataAndIndices uses the hash multimap.
HashThreshold == 200

\* Every order of the elements of v.
Orders(v) == {[j \in DOMAIN v |-> v[f[j]]] : f \in PermsOf(Len(v))}

\* The number of iterations of the lookup loop
\* (i < rowlen && j < collen; i += row_stride, j += col_stride).
LookupCount(rows, cols) ==
    IF Len(rows) = 0 \/ Len(cols) = 0 THEN 0 ELSE Max(Len(rows), Len(cols))

\* The positions of the entries (row_id, col_id) of the matrix, ascending:
\* what the scan over k = 0 .. nnz-1 of the linear path pushes for the pair.
LinearScan(m, row_id, col_id) ==
    Ascending({i \in CooPtrs(m) : At(m.row, i) = row_id /\ At(m.col, i) = col_id})

\* (mutant) a map that keeps one entry per key
EqualRange_OnePerKey(m, row_id, col_id) ==
    {[j \in 1..Min(1, Len(LinearScan(m, row_id, col_id))) |->
         LinearScan(m, row_id, col_id)[j]]}

\* pair_map.equal_range({row_id, col_id}) on the multimap filled with every
\* entry of the matrix: the positions with that key, in an order the
\* container chooses.
EqualRange(m, row_id, col_id) ==
    Orders(LinearScan(m, row_id, col_id))

\* COOGetDataAndIndices(coo, rows, cols): the outcomes of the call.  The
\* result is the triple (ret_rows, ret_cols, ret_data).  The multimap is
\* built once, so a pair looked up twice lists its matches in one order.
COOGetDataAndIndices(m, rows, cols) ==
    IF ~ShapesMatch(rows, cols) THEN {Fatal}
    ELSE LET len == Max(Len(rows), Len(cols))
             row_id(k) == At(rows, k * Stride(Len(rows), Len(cols)))
             col_id(k) == At(cols, k * Stride(Len(cols), Len(rows)))
             count == LookupCount(rows, cols)
         IN  IF \E k \in 0..(count - 1) :
                    ~RowInRange(m, row_id(k)) \/ ~ColInRange(m, col_id(k))
             THEN {Fatal}
             ELSE UNION {
                    {Returned(<<[j \in DOMAIN hits |-> row_id(hits[j][1])],
                                [j \in DOMAIN hits |-> col_id(hits[j][1])],
                                [j \in DOMAIN hits |-> CooEid(m, hits[j][2])]>>)
                     : hits \in {Flatten([k \in 1..count |->
                          [j \in DOMAIN found[<<row_id(k - 1), col_id(k - 1)>>] |->
                              <<k - 1, found[<<row_id(k - 1), col_id(k - 1)>>][j]>>]])}}
                   : found \in PickEach(
                        [key \in {<<row_id(k), col_id(k)>> : k \in 0..(count - 1)} |->
                            IF len >= HashThreshold
                            THEN EqualRange(m, key[1], key[2])
                            ELSE {LinearScan(m, key[1], key[2])}])}

\* COOSliceRows(coo, start, end)
COOSliceRows(m, start, end) ==
    IF ~(start >= 0 /\ start < m.num_rows) \/ ~(end > 0 /\ end <= m.num_rows)
    THEN Fatal
    ELSE LET kept == Ascending({i \in CooPtrs(m) :
                        At(m.row, i) < end /\ At(m.row, i) >= start})
         IN  Returned([num_rows   |-> end - start,
                       num_cols   |-> m.num_cols,
                       row        |-> [k \in DOMAIN kept |-> At(m.row, kept[k]) - start],
                       col        |-> [k \in DOMAIN kept |-> At(m.col, kept[k])],
                       data       |-> [k \in DOMAIN kept |-> CooEid(m, kept[k])],
                       row_sorted |-> m.row_sorted,
                       col_sorted |-> m.col_sorted])

\* IdHashMap(ids).Map(id, default_val): the position of id in ids, or
\* default_val when ids does not hold it (ids without duplicates).
IdHashMapMap(ids, id, default_val) ==
    IF \E k \in DOMAIN ids : ids[k] = id
    THEN (CHOOSE k \in DOMAIN ids : ids[k] = id) - 1
    ELSE default_val

\* COOSliceRows(coo, rows) with an id array
COOSliceRowsByIds(m, rows) ==
    LET kept == Ascending({i \in CooPtrs(m) :
                    IdHashMapMap(rows, At(m.row, i), -1) # -1})
    IN  Returned([num_rows   |-> Len(rows),
                  num_cols   |-> m.num_cols,
                  row        |-> [k \in DOMAIN kept |->
                                    IdHashMapMap(rows, At(m.row, kept[k]), -1)],
                  col        |-> [k \in DOMAIN kept |-> At(m.col, kept[k])],
                  data       |-> [k \in DOMAIN kept |-> CooEid(m, kept[k])],
                  row_sorted |-> m.row_sorted,
                  col_sorted |-> m.col_sorted])

\* COOSliceMatrix(coo, rows, cols)
COOSliceMatrix(m, rows, cols) ==
    LET kept == Ascending({i \in CooPtrs(m) :
                    /\ IdHashMapMap(rows, At(m.row, i), -1) # -1
                    /\ IdHashMapMap(cols, At(m.col, i), -1) # -1})
    IN  Returned([num_rows   |-> Len(rows),
                  num_cols   |-> Len(cols),
                  row        |-> [k \in DOMAIN kept |->
                                    IdHashMapMap(rows, At(m.row, kept[k]), -1)],
                  col        |-> [k \in DOMAIN kept |->
                                    IdHashMapMap(cols, At(m.col, kept[k]), -1)],
                  data       |-> [k \in DOMAIN kept |-> CooEid(m, kept[k])],
                  row_sorted |-> m.row_sorted,
                  col_sorted |-> m.col_sorted])

\* nz_start .. nz_end-1 (or n_start .. n_end-1) of thread thread_id: its
\* chunk of the total positions, chunk = (total+num_threads-1)/num_threads.
Chunk(total, num_threads, thread_id) ==
    LET chunk == (total + num_threads - 1) \div num_threads
    IN  (thread_id * chunk)..(Min(total, thread_id * chunk + chunk) - 1)

\* The values the cells 1..n can end with after the writes <<cell, value>>:
\* a cell nobody wrote holds whatever the allocation held, a cell written
\* more than once holds one of the values written.
CellsAfter(n, writes) ==
    PickEach([c \in 1..n |->
        IF \E w \in writes : w[1] = c
        THEN {w[2] : w \in {x \in writes : x[1] = c}}
        ELSE UninitCell])

\* (mutant) every thread starts its search at row 0
SortedBpWrites_RowFromZero(m, num_threads, thread_id) ==
    LET NNZ == Len(m.row)
        nz == Chunk(NNZ, num_threads, thread_id)
        before(i) == IF i = 0 \/ (i - 1) \notin nz THEN 0 ELSE At(m.row, i - 1)
    IN  UNION {{<<r, i>> : r \in (before(i) + 1)..At(m.row, i)} : i \in nz}
        \cup (IF nz # {} /\ (NNZ - 1) \in nz
              THEN {<<r, NNZ>> : r \in (At(m.row, NNZ - 1) + 1)..m.num_rows}
              ELSE {})

\* Row-sorted path: the writes <<row, value>> (Bp[row] = value) of a thread.
SortedBpWrites(m, num_threads, thread_id) ==
    LET NNZ == Len(m.row)
        nz == Chunk(NNZ, num_threads, thread_id)
        before(i) == IF i = 0 THEN 0 ELSE At(m.row, i - 1)
    IN  UNION {{<<r, i>> : r \in (before(i) + 1)..At(m.row, i)} : i \in nz}
        \cup (IF nz # {} /\ (NNZ - 1) \in nz
              THEN {<<r, NNZ>> : r \in (At(m.row, NNZ - 1) + 1)..m.num_rows}
              ELSE {})

\* Row-sorted path: the writes <<i, value>> of std::iota into fill_data.
SortedFillWrites(m, num_threads, thread_id) ==
    IF COOHasData(m) THEN {}
    ELSE {<<i, i>> : i \in Chunk(Len(m.row), num_threads, thread_id)}

\* COOToCSR, row_sorted path: the CSR matrices the call can return.
COOToCSRSorted(m, num_threads) ==
    LET NNZ == Len(m.row)
        threads == 0..(num_threads - 1)
        bp == {<<1, 0>>} \cup
              (IF NNZ > 0
               THEN {<<w[1] + 1, w[2]>> :
                       w \in UNION {SortedBpWrites(m, num_threads, t) : t \in threads}}
               ELSE {<<r + 1, 0>> : r \in 0..m.num_rows})
        fill == IF NNZ > 0
                THEN {<<w[1] + 1, w[2]>> :
                        w \in UNION {SortedFillWrites(m, num_threads, t) : t \in threads}}
                ELSE {}
    IN  {Returned([num_rows |-> m.num_rows,
                   num_cols |-> m.num_cols,
                   indptr   |-> indptr,
                   indices  |-> m.col,
                   data     |-> data,
                   sorted   |-> m.col_sorted]) :
            indptr \in CellsAfter(m.num_rows + 1, bp),
            data \in IF COOHasData(m) THEN {m.data} ELSE CellsAfter(NNZ, fill)}

\* (mutant) Bx[index] = data ? data[i] : index
PlacedEid_Index(m, i, index) == IF COOHasData(m) THEN At(m.data, i) ELSE index

\* Bx[index] = data ? data[i] : i
PlacedEid(m, i, index) == CooEid(m, i)

\* local_ptrs[thread_id][r] after the counting loop
LocalCount(m, num_threads, thread_id, r) ==
    Cardinality({i \in Chunk(Len(m.row), num_threads, thread_id) : At(m.row, i) = r})

\* (mutant) the swap loop is skipped and the counters are cleared
LocalOffset_Cleared(m, num_threads, thread_id, r) == 0

\* local_ptrs[thread_id][r] after the swap loop: the entries of row r the
\* threads before thread_id counted
LocalOffset(m, num_threads, thread_id, r) ==
    SumSeq([j \in 1..thread_id |-> LocalCount(m, num_threads, j - 1, r)])

\* tmp after the swap loop for row r: the entries of row r of all threads
RowTotal(m, num_threads, r) ==
    SumSeq([j \in 1..num_threads |-> LocalCount(m, num_threads, j - 1, r)])

\* thread_prefixsum[thread_id + 1] as the thread leaves it: the sum over its rows
ThreadSum(m, num_threads, thread_id) ==
    LET rows == Ascending(Chunk(m.num_rows, num_threads, thread_id))
    IN  SumSeq([k \in DOMAIN rows |-> RowTotal(m, num_threads, rows[k])])

\* thread_prefixsum[k] after the master's running sum
ThreadPrefixSum(m, num_threads, k) ==
    SumSeq([u \in 1..k |-> ThreadSum(m, num_threads, u - 1)])

\* Bp[r] at the end of the unsorted path
UnsortedBp(m, num_threads, r) ==
    IF r = 0 THEN 0
    ELSE LET owner == CHOOSE t \in 0..(num_threads - 1) :
                          (r - 1) \in Chunk(m.num_rows, num_threads, t)
             n_start == owner * ((m.num_rows + num_threads - 1) \div num_threads)
         IN  SumSeq([k \in 1..(r - n_start) |->
                        RowTotal(m, num_threads, n_start + k - 1)])
             + ThreadPrefixSum(m, num_threads, owner)

\* index = Bp[r] + local_ptrs[thread_id][r]++ for the entry at position i
PlaceIndex(m, num_threads, thread_id, i) ==
    UnsortedBp(m, num_threads, At(m.row, i))
    + LocalOffset(m, num_threads, thread_id, At(m.row, i))
    + Cardinality({k \in Chunk(Len(m.row), num_threads, thread_id) :
                      k < i /\ At(m.row, k) = At(m.row, i)})

\* COOToCSR, unsorted path: the outcomes of the call.
COOToCSRUnsorted(m, num_threads) ==
    LET NNZ == Len(m.row)
        threads == 0..(num_threads - 1)
        placed == UNION {{<<t, i>> : i \in Chunk(NNZ, num_threads, t)} : t \in threads}
    IN  IF ThreadPrefixSum(m, num_threads, num_threads) # NNZ
           \/ UnsortedBp(m, num_threads, m.num_rows) # NNZ
        THEN {Fatal}
        ELSE UNION {
          {Returned([num_rows |-> m.num_rows,
                     num_cols |-> m.num_cols,
                     indptr   |-> [r \in 1..(m.num_rows + 1) |->
                                      UnsortedBp(m, num_threads, r - 1)],
                     indices  |-> Bi,
                     data     |-> Bx,
                     sorted   |-> m.col_sorted]) :
              Bi \in CellsAfter(NNZ, {<<at[p] + 1, At(m.col, p[2])>> : p \in placed}),
              Bx \in CellsAfter(NNZ, {<<at[p] + 1, PlacedEid(m, p[2], at[p])>> : p \in placed})}
          : at \in {[p \in placed |-> PlaceIndex(m, num_threads, p[1], p[2])]}}

\* COOToCSR(coo) on num_threads threads
COOToCSR(m, num_threads) ==
    IF m.row_sorted THEN COOToCSRSorted(m, num_threads)
    ELSE COOToCSRUnsorted(m, num_threads)

\* The row ids, column ids and id arrays calls are made with: the ids of
\* the matrix and the nearest ids outside.
ScalarRowIds == -1..Cardinality(CooRowIds)
ScalarColIds == -1..Cardinality(CooColIds)
RowIdArrays == UNION {[1..k -> 0..Cardinality(CooRowIds)] : k \in QueryLens}
ColIdArrays == UNION {[1..k -> 0..Cardinality(CooColIds)] : k \in QueryLens}

\* Lookups long enough for the hash multimap, as <<rows, cols>>: a pair
\* (0, col) and the pair (1, 1) in turn up to the threshold length, and a single
\* id broadcast against an array of that length.
LongLookups ==
    {<<[j \in 1..HashThreshold |-> seed[((j - 1) % 2) + 1][1]],
       [j \in 1..HashThreshold |-> seed[((j - 1) % 2) + 1][2]]>> :
        seed \in {<<<<0, first_col>>, <<1, 1>>>> : first_col \in CooColIds}}
    \cup {<<<<0>>, [j \in 1..HashThreshold |-> j % 2]>>,
          <<[j \in 1..HashThreshold |-> j % 2], <<1>>>>}

\* The values of the reads COOGetData makes past the end of an id array.
JunkReads(rows, cols) ==
    IF ShapesMatch(rows, cols) /\ (Len(rows) = 0 \/ Len(cols) = 0)
                               /\ Max(Len(rows), Len(cols)) > 0
    THEN UninitId ELSE {0}

InitCoo ==
    /\ coo \in COOInputs
    /\ cooCall = <<>>
    /\ cooPhase = "fresh"
    /\ IdleComm
    /\ IdleUid
    /\ IdleCsr
    /\ IdleKern
    /\ IdleAtom
    /\ IdleWalk
    /\ IdleUnion

\* The record of a call: its function, the row and column ids it was
\* given, the number of threads, and its outcome.
Called(fn, rows, cols, num_threads, outcome) ==
    /\ cooCall' = [fn |-> fn, rows |-> rows, cols |-> cols,
                   num_threads |-> num_threads,
                   failed |-> outcome.failed, ret |-> outcome.ret]
    /\ cooPhase' = "called"
    /\ UNCHANGED <<coo, nonCooVars>>

CallCOOIsNonZero ==
    /\ cooPhase = "fresh"
    /\ \E row \in ScalarRowIds, col \in ScalarColIds :
          Called("COOIsNonZero", <<row>>, <<col>>, 1, COOIsNonZero(coo, row, col))

CallCOOGetRowNNZ ==
    /\ cooPhase = "fresh"
    /\ \E row \in ScalarRowIds :
          Called("COOGetRowNNZ", <<row>>, <<>>, 1, COOGetRowNNZ(coo, row))

CallCOOGetRowDataAndIndices ==
    /\ cooPhase = "fresh"
    /\ \E row \in ScalarRowIds :
          Called("COOGetRowDataAndIndices", <<row>>, <<>>, 1,
                 COOGetRowDataAndIndices(coo, row))

CallCOOGetData ==
    /\ cooPhase = "fresh"
    /\ \E rows \in RowIdArrays, cols \in ColIdArrays :
          \E junk \in JunkReads(rows, cols) :
              Called("COOGetData", rows, cols, 1, COOGetData(coo, rows, cols, junk))

CallCOOGetDataAndIndices ==
    /\ cooPhase = "fresh"
    /\ \E lookup \in (RowIdArrays \X ColIdArrays) \cup LongLookups :
          \E outcome \in COOGetDataAndIndices(coo, lookup[1], lookup[2]) :
              Called("COOGetDataAndIndices", lookup[1], lookup[2], 1, outcome)

\* COOSliceRows(coo, start, end); the call is recorded with rows = (start, end)
CallCOOSliceRows ==
    /\ cooPhase = "fresh"
    /\ \E start \in ScalarRowIds, end \in 0..(Cardinality(CooRowIds) + 1) :
          Called("COOSliceRows", <<start, end>>, <<>>, 1, COOSliceRows(coo, start, end))

\* The id arrays a slice selects with: the ids of the matrix, each at most
\* once, in every order.
SelectArrays(ids) ==
    UNION {{a \in [1..k -> ids] : \A i \in 1..k, j \in 1..k : a[i] = a[j] => i = j}
           : k \in 0..Cardinality(ids)}

CallCOOSliceRowsByIds ==
    /\ cooPhase = "fresh"
    /\ \E rows \in SelectArrays(CooRowIds) :
          Called("COOSliceRowsByIds", rows, <<>>, 1, COOSliceRowsByIds(coo, rows))

CallCOOSliceMatrix ==
    /\ cooPhase = "fresh"
    /\ \E rows \in SelectArrays(CooRowIds), cols \in SelectArrays(CooColIds) :
          Called("COOSliceMatrix", rows, cols, 1, COOSliceMatrix(coo, rows, cols))

CallCOOToCSR ==
    /\ cooPhase = "fresh"
    /\ \E num_threads \in 1..MaxThreads :
          \E outcome \in COOToCSR(coo, num_threads) :
              Called("COOToCSR", <<>>, <<>>, num_threads, outcome)

NextCoo ==
    \/ CallCOOIsNonZero
    \/ CallCOOGetRowNNZ
    \/ CallCOOGetRowDataAndIndices
    \/ CallCOOGetData
    \/ CallCOOGetDataAndIndices
    \/ CallCOOSliceRows
    \/ CallCOOSliceRowsByIds
    \/ CallCOOSliceMatrix
    \/ CallCOOToCSR

SpecCoo == InitCoo /\ [][NextCoo]_vars

-----------------------------------------------------------------------------
(* Properties of the COO operations *)

\* The (row, column, edge id) triples of a COO matrix, by position.
CooTriples(m) ==
    [j \in DOMAIN m.row |-> <<m.row[j], m.col[j], CooEid(m, j - 1)>>]

\* The (row, column, edge id) triples of a CSR matrix, by position.
CsrTriples(m) ==
    [j \in DOMAIN m.indices |->
        <<CHOOSE r \in 0..(m.num_rows - 1) : (j - 1) \in RowPtrs(m, r),
          m.indices[j], EdgeIdAt(m, j - 1)>>]

\* indptr[0] = 0, indptr is non-decreasing and indptr[num_rows] = nnz
IndptrWellFormed(m, nnz) ==
    /\ Len(m.indptr) = m.num_rows + 1
    /\ At(m.indptr, 0) = 0
    /\ \A r \in 0..(m.num_rows - 1) : At(m.indptr, r) <= At(m.indptr, r + 1)
    /\ At(m.indptr, m.num_rows) = nnz

\* C7: COOToCSR on any COO with row ids in [0,num_rows) returns a CSR with
\* indptr[0] = 0, indptr non-decreasing and indptr[num_rows] = nnz, whose
\* multiset of (row, column, edge id) triples equals that of the COO (edge
\* id of entry i: data[i], or i without data), on the row_sorted path and
\* on the unsorted path.
C7_COOToCSRKeepsTriples ==
    (cooPhase = "called" /\ cooCall.fn = "COOToCSR") =>
        /\ ~cooCall.failed
        /\ IndptrWellFormed(cooCall.ret, Len(coo.row))
        /\ Len(cooCall.ret.indices) = Len(coo.row)
        /\ Len(cooCall.ret.data) = Len(coo.row)
        /\ BagOfSeq(CsrTriples(cooCall.ret)) = BagOfSeq(CooTriples(coo))

\* A row-sorted matrix without data whose first row is empty was converted
\* by at least two threads that each had entries.
C7_Witness ==
    /\ cooPhase = "called"
    /\ cooCall.fn = "COOToCSR"
    /\ coo.row_sorted
    /\ ~COOHasData(coo)
    /\ Len(coo.row) >= 3
    /\ At(coo.row, 0) = 1
    /\ cooCall.num_threads = 2
    /\ ~cooCall.failed
    /\ cooCall.ret.data = <<0, 1, 2>>

\* The row ids and column ids a call was given.
GivenRows ==
    IF cooCall.fn = "COOSliceRows"
    THEN {cooCall.rows[1], cooCall.rows[2] - 1}
    ELSE {cooCall.rows[j] : j \in DOMAIN cooCall.rows}
GivenCols == {cooCall.cols[j] : j \in DOMAIN cooCall.cols}

\* C9: every COO query that takes row or column ids (COOIsNonZero,
\* COOGetRowNNZ, COOGetRowDataAndIndices, COOGetData, COOGetDataAndIndices,
\* COOSliceRows by range) fails and returns no result when given a row id
\* outside [0,num_rows) or a column id outside [0,num_cols).
C9_QueriesRejectOutOfRangeIds ==
    (/\ cooPhase = "called"
     /\ cooCall.fn # "COOToCSR"
     /\ \/ \E r \in GivenRows : ~RowInRange(coo, r)
        \/ \E c \in GivenCols : ~ColInRange(coo, c))
    => (cooCall.failed /\ cooCall.ret = <<>>)


\* The (row, col) pairs a lookup with these id arrays asks for: the arrays
\* zipped, an array of length 1 being repeated against the other.
QueriedPairs(rows, cols) ==
    IF Len(rows) = Len(cols) THEN [q \in DOMAIN rows |-> <<rows[q], cols[q]>>]
    ELSE IF Len(rows) = 1 THEN [q \in DOMAIN cols |-> <<rows[1], cols[q]>>]
    ELSE [q \in DOMAIN rows |-> <<rows[q], cols[1]>>]

\* The edge id of the lowest-position entry of m matching pair, -1 if none.
LowestMatch(m, pair) ==
    LET hits == {i \in CooPtrs(m) : At(m.row, i) = pair[1] /\ At(m.col, i) = pair[2]}
    IN  IF hits = {} THEN -1
        ELSE CooEid(m, CHOOSE i \in hits : \A other \in hits : i <= other)

\* C21: for a COO whose row array is non-decreasing, COOGetData returns,
\* with row_sorted set (binary search) as with row_sorted clear (linear
\* scan), one element per queried pair (a length-1 rows or cols array being
\* broadcast against the other): the edge id of the lowest-position entry
\* matching the pair, or -1 when no entry matches.
C21_GetDataPathsAgree ==
    (/\ cooPhase = "called"
     /\ cooCall.fn = "COOGetData"
     /\ ~cooCall.failed
     /\ RowsNonDecreasing(coo))
    => \E pairs \in {QueriedPairs(cooCall.rows, cooCall.cols)} :
          cooCall.ret = [q \in DOMAIN pairs |-> LowestMatch(coo, pairs[q])]

\* The same, for lookups whose broadcast array meets a non-empty array.
GetDataPathsAgreeOnPairs ==
    (/\ cooPhase = "called"
     /\ cooCall.fn = "COOGetData"
     /\ ~cooCall.failed
     /\ RowsNonDecreasing(coo)
     /\ (Len(cooCall.rows) = 0) = (Len(cooCall.cols) = 0))
    => \E pairs \in {QueriedPairs(cooCall.rows, cooCall.cols)} :
          cooCall.ret = [q \in DOMAIN pairs |-> LowestMatch(coo, pairs[q])]


\* The positions of the entries of m that match pair, ascending.
Matching(m, pair) ==
    Ascending({i \in CooPtrs(m) : At(m.row, i) = pair[1] /\ At(m.col, i) = pair[2]})

\* C22: COOGetDataAndIndices returns, with fewer than 200 lookups (linear
\* scan) as with 200 or more (hash multimap), for each queried pair in query
\* order one (row, col, edge id) triple per COO entry matching the pair,
\* duplicates included, in any order within the pair, and nothing for a pair
\* without a match.
C22_GetDataAndIndicesPathsAgree ==
    (/\ cooPhase = "called"
     /\ cooCall.fn = "COOGetDataAndIndices"
     /\ ~cooCall.failed)
    => \E pairs \in {QueriedPairs(cooCall.rows, cooCall.cols)} :
       \E hits \in {[pair \in {pairs[q] : q \in DOMAIN pairs} |-> Matching(coo, pair)]} :
       \E slot \in {Flatten([q \in DOMAIN pairs |->
                       [j \in DOMAIN hits[pairs[q]] |-> <<q, j>>]])} :
          /\ Len(cooCall.ret) = 3
          /\ \A a \in 1..3 : Len(cooCall.ret[a]) = Len(slot)
          /\ \A p \in DOMAIN slot :
                slot[p][2] = 1 =>
                  \E pair \in {pairs[slot[p][1]]} :
                     BagOfSeq([j \in DOMAIN hits[pair] |->
                                 <<cooCall.ret[1][p + j - 1], cooCall.ret[2][p + j - 1],
                                   cooCall.ret[3][p + j - 1]>>])
                       = BagOfSeq([j \in DOMAIN hits[pair] |->
                                 <<pair[1], pair[2], CooEid(coo, hits[pair][j])>>])

\* A lookup of 200 pairs on a matrix with two entries (0, 0) got them latest
\* first.
C22_Witness ==
    /\ cooPhase = "called"
    /\ cooCall.fn = "COOGetDataAndIndices"
    /\ ~cooCall.failed
    /\ Len(cooCall.rows) = HashThreshold
    /\ coo.row = <<0, 0, 1>>
    /\ coo.col = <<0, 0, 1>>
    /\ ~COOHasData(coo)
    /\ cooCall.rows[1] = 0 /\ cooCall.cols[1] = 0
    /\ Len(cooCall.ret[3]) = 300
    /\ SubSeq(cooCall.ret[3], 1, 3) = <<1, 0, 2>>


\* The number of entries of m with a row id below r.
EntriesBelow(m, r) == Cardinality({i \in CooPtrs(m) : At(m.row, i) < r})

\* The positions of m ordered by row, and by position within a row.
RowMajor(m) ==
    Flatten([k \in 1..m.num_rows |-> Ascending({i \in CooPtrs(m) : At(m.row, i) = k - 1})])

\* C26: for a COO not flagged row_sorted, COOToCSR returns the same indptr,
\* indices and data for every number of threads and every interleaving
\* between the barriers: indptr[r] counts the entries of rows below r, the
\* entries of a CSR row are in their COO position order, and no two threads
\* write the same cell of indptr, indices or data.
C26_UnsortedConversionIsDeterministic ==
    (cooPhase = "called" /\ cooCall.fn = "COOToCSR" /\ ~coo.row_sorted)
    => /\ ~cooCall.failed
       /\ cooCall.ret.indptr = [r \in 1..(coo.num_rows + 1) |-> EntriesBelow(coo, r - 1)]
       /\ \E order \in {RowMajor(coo)} :
            /\ cooCall.ret.indices = [j \in DOMAIN order |-> At(coo.col, order[j])]
            /\ cooCall.ret.data = [j \in DOMAIN order |-> CooEid(coo, order[j])]
       /\ \E n \in {cooCall.num_threads} :
            /\ \A t \in 0..(n - 1), u \in 0..(n - 1) :
                 t # u =>
                   /\ Chunk(coo.num_rows, n, t) \cap Chunk(coo.num_rows, n, u) = {}
                   /\ \A i \in Chunk(Len(coo.row), n, t), k \in Chunk(Len(coo.row), n, u) :
                        PlaceIndex(coo, n, t, i) # PlaceIndex(coo, n, u, k)
            /\ \A t \in 0..(n - 1) :
                 \A i \in Chunk(Len(coo.row), n, t) :
                    PlaceIndex(coo, n, t, i) \in CooPtrs(coo)

\* Three threads converted a matrix without data whose rows are not in order.
C26_Witness ==
    /\ cooPhase = "called"
    /\ cooCall.fn = "COOToCSR"
    /\ ~coo.row_sorted
    /\ coo.row = <<1, 0, 1>>
    /\ coo.col = <<0, 1, 1>>
    /\ ~COOHasData(coo)
    /\ cooCall.num_threads = 3
    /\ cooCall.ret.indptr = <<0, 1, 3>>
    /\ cooCall.ret.indices = <<1, 0, 1>>
    /\ cooCall.ret.data = <<1, 0, 2>>

\* The writes <<thread, value>> into Bp[r] on the row_sorted path.
SortedBpWriters(m, num_threads, r) ==
    IF Len(m.row) > 0
    THEN UNION {{<<t, w[2]>> : w \in {x \in SortedBpWrites(m, num_threads, t) : x[1] = r}}
                : t \in 0..(num_threads - 1)}
    ELSE {<<0, 0>>}

\* C27: for a COO flagged row_sorted whose row array is non-decreasing with
\* ids in [0, num_rows), COOToCSR with any number of threads writes each of
\* indptr[1..num_rows] exactly once, ends with indptr[r] = the number of
\* entries with a row id below r, and fills data[i] = i for every i when the
\* matrix has no data array.
C27_SortedConversionWritesOnce ==
    (cooPhase = "called" /\ cooCall.fn = "COOToCSR" /\ coo.row_sorted)
    => /\ ~cooCall.failed
       /\ \A r \in 1..coo.num_rows :
            /\ Cardinality(SortedBpWriters(coo, cooCall.num_threads, r)) = 1
            /\ At(cooCall.ret.indptr, r) = EntriesBelow(coo, r)
       /\ At(cooCall.ret.indptr, 0) = 0
       /\ ~COOHasData(coo) => cooCall.ret.data = Range(0, Len(coo.row))
       /\ COOHasData(coo) => cooCall.ret.data = coo.data
       /\ cooCall.ret.indices = coo.col

\* Three threads, one entry each: the row changes at a chunk boundary.
C27_Witness ==
    /\ cooPhase = "called"
    /\ cooCall.fn = "COOToCSR"
    /\ coo.row_sorted
    /\ coo.row = <<0, 1, 1>>
    /\ ~COOHasData(coo)
    /\ cooCall.num_threads = 3
    /\ cooCall.ret.indptr = <<0, 1, 3>>
    /\ cooCall.ret.data = <<0, 1, 2>>


\* C30: whenever COOSliceRows (by id array) or COOSliceMatrix returns a
\* matrix with row_sorted = true its row array is non-decreasing, and
\* whenever it returns col_sorted = true its columns are non-decreasing
\* within each run of equal rows, for every order of the ids in the
\* selecting arrays.
C30_SliceFlagsAreTrue ==
    (/\ cooPhase = "called"
     /\ cooCall.fn \in {"COOSliceRowsByIds", "COOSliceMatrix"}
     /\ ~cooCall.failed)
    => /\ cooCall.ret.row_sorted => RowsNonDecreasing(cooCall.ret)
       /\ cooCall.ret.col_sorted => ColsNonDecreasing(cooCall.ret)

\* The same, for selecting arrays whose ids ascend.
SliceFlagsAreTrueForAscendingIds ==
    (/\ cooPhase = "called"
     /\ cooCall.fn \in {"COOSliceRowsByIds", "COOSliceMatrix"}
     /\ ~cooCall.failed
     /\ \A i \in DOMAIN cooCall.rows, j \in DOMAIN cooCall.rows :
           i < j => cooCall.rows[i] < cooCall.rows[j]
     /\ \A i \in DOMAIN cooCall.cols, j \in DOMAIN cooCall.cols :
           i < j => cooCall.cols[i] < cooCall.cols[j])
    => /\ cooCall.ret.row_sorted => RowsNonDecreasing(cooCall.ret)
       /\ cooCall.ret.col_sorted => ColsNonDecreasing(cooCall.ret)


-----------------------------------------------------------------------------
(* The kernel entry points: SpMMCsr, SpMMCsrHetero, SpMMCoo (spmm.cc, kept in
   binary_bcast_reduce_sum.cu), SegmentReduce (segment_reduce.cc).  A feature
   is one number per node or edge (feature length 1, no broadcasting).  The
   kernels cpu::SpMMSumCsr, cpu::SpMMCmpCsr, cpu::SpMMSumCoo, cpu::SpMMCmpCoo,
   cpu::SegmentSum, cpu::SegmentCmp and the macro SWITCH_OP live in spmm.h and
   segment_reduce.h. *)

\* Largest number of edges of the graph a kernel is called on.
MaxEdges == 2

KNodeIds == 0..1
OpNames == {"add", "sub", "mul", "div", "copy_lhs", "copy_rhs", "dot"}
ReduceNames == {"sum", "max", "min", "mean", "prod", "none"}
BitsChoices == {16, 32, 64}

\* The edge lists: edge i (from 0) is <<source, destination>>.
EdgeLists == UNION {[1..n -> KNodeIds \X KNodeIds] : n \in 0..MaxEdges}

\* What the output tensor holds at each row before the call.
StaleOut(n) == [j \in 1..n |-> -99]

\* The edge ids (from 0) of the edges into destination v, ascending.
EdgesInto(edges, v) ==
    SelectSeq(Range(0, Len(edges)), LAMBDA e : At(edges, e)[2] = v)

\* The CSR the SpMM entry points are given: row v lists the sources of the
\* edges into v, data holds their edge ids.
InCsr(edges) ==
    LET rows == [v \in 1..Cardinality(KNodeIds) |-> EdgesInto(edges, v - 1)]
    IN  [num_rows |-> Cardinality(KNodeIds),
         num_cols |-> Cardinality(KNodeIds),
         indptr   |-> [r \in 1..(Cardinality(KNodeIds) + 1) |->
                          SumSeq([v \in 1..(r - 1) |-> Len(rows[v])])],
         indices  |-> Flatten([v \in DOMAIN rows |->
                          [j \in DOMAIN rows[v] |-> At(edges, rows[v][j])[1]]]),
         data     |-> Flatten(rows),
         sorted   |-> FALSE]

\* The COO of the same edges: row = source, col = destination, no data array.
AsCoo(edges) ==
    [num_rows   |-> Cardinality(KNodeIds),
     num_cols   |-> Cardinality(KNodeIds),
     row        |-> [j \in DOMAIN edges |-> edges[j][1]],
     col        |-> [j \in DOMAIN edges |-> edges[j][2]],
     data       |-> <<>>,
     row_sorted |-> FALSE,
     col_sorted |-> FALSE]

\* SWITCH_BITS: the compute type, "" when LOG(FATAL)
SWITCH_BITS(bits) ==
    IF bits = 16 \/ bits = 32 THEN "float"
    ELSE IF bits = 64 THEN "double"
    ELSE ""

\* SWITCH_OP: the operator functor the name selects, "" when LOG(FATAL)
SWITCH_OP(name) ==
    IF name \in {"add", "sub", "mul", "div", "copy_lhs", "copy_rhs"} THEN name
    ELSE ""

\* Op::Call(lhs, rhs) of the binary functors
OpCall(Op, lhs, rhs) ==
    CASE Op = "add" -> lhs + rhs
      [] Op = "sub" -> lhs - rhs
      [] Op = "mul" -> lhs * rhs
      [] Op = "div" -> lhs \div rhs
      [] Op = "copy_lhs" -> lhs
      [] Op = "copy_rhs" -> rhs

\* What a call did: whether it ended in LOG(FATAL), the kernels it invoked
\* in order, and the contents of out and of the two out_aux arrays after it.
NotCalled == <<>>
KernelResult(fatal, kernels, out, aux) ==
    [fatal |-> fatal, kernels |-> kernels, out |-> out, aux |-> aux]
KernelFatal(out) == KernelResult(TRUE, <<>>, out, <<>>)

\* cpu::SpMMSumCsr<IdType, DType, Op>(bcast, csr, ufeat, efeat, out)
SpMMSumCsr(Op, m, ufeat, efeat, out) ==
    [rid \in 1..m.num_rows |->
        SumSeq([j \in 1..(At(m.indptr, rid) - At(m.indptr, rid - 1)) |->
            OpCall(Op,
                   At(ufeat, At(m.indices, At(m.indptr, rid - 1) + j - 1)),
                   At(efeat, EdgeIdAt(m, At(m.indptr, rid - 1) + j - 1)))])]

\* The positions (from 0) of the COO entries whose column is v, ascending.
CooInto(m, v) == SelectSeq(Range(0, Len(m.col)), LAMBDA i : At(m.col, i) = v)

\* cpu::SpMMSumCoo<IdType, DType, Op>(bcast, coo, ufeat, efeat, out)
SpMMSumCoo(Op, m, ufeat, efeat, out) ==
    [v \in 1..m.num_cols |->
        SumSeq([j \in DOMAIN CooInto(m, v - 1) |->
            OpCall(Op,
                   At(ufeat, At(m.row, CooInto(m, v - 1)[j])),
                   At(efeat, CooEid(m, CooInto(m, v - 1)[j])))])]

\* Cmp::Call(accum, val) of cpu::op::Max and cpu::op::Min: val replaces accum
CmpCall(Cmp, accum, val) == IF Cmp = "Max" THEN accum < val ELSE accum > val

\* The position in vals of the value a Cmp reduction keeps: the first one
\* no later value replaces (0 when vals is empty).
RECURSIVE ArgCmp(_, _, _, _)
ArgCmp(Cmp, vals, best, j) ==
    IF j > Len(vals) THEN best
    ELSE IF best = 0 \/ CmpCall(Cmp, vals[best], vals[j])
         THEN ArgCmp(Cmp, vals, j, j + 1)
         ELSE ArgCmp(Cmp, vals, best, j + 1)

\* cpu::SpMMCmpCsr<IdType, DType, Op, Cmp>(bcast, csr, ufeat, efeat, out,
\* argu, arge): <<out, argu, arge>>; a row without entries keeps its fill
\* value and gets -1 in both arg arrays.
SpMMCmpCsr(Op, Cmp, m, ufeat, efeat, out) ==
    LET src(rid, j) == At(m.indices, At(m.indptr, rid - 1) + j - 1)
        eid(rid, j) == EdgeIdAt(m, At(m.indptr, rid - 1) + j - 1)
        vals(rid) == [j \in 1..(At(m.indptr, rid) - At(m.indptr, rid - 1)) |->
                         OpCall(Op, At(ufeat, src(rid, j)), At(efeat, eid(rid, j)))]
        arg(rid) == ArgCmp(Cmp, vals(rid), 0, 1)
    IN  << [rid \in 1..m.num_rows |->
               IF arg(rid) = 0 THEN out[rid] ELSE vals(rid)[arg(rid)]],
           [rid \in 1..m.num_rows |->
               IF arg(rid) = 0 THEN -1 ELSE src(rid, arg(rid))],
           [rid \in 1..m.num_rows |->
               IF arg(rid) = 0 THEN -1 ELSE eid(rid, arg(rid))] >>

\* cpu::SpMMCmpCoo<IdType, DType, Op, Cmp>(bcast, coo, ufeat, efeat, out,
\* argu, arge)
SpMMCmpCoo(Op, Cmp, m, ufeat, efeat, out) ==
    LET src(v, j) == At(m.row, CooInto(m, v - 1)[j])
        eid(v, j) == CooEid(m, CooInto(m, v - 1)[j])
        vals(v) == [j \in DOMAIN CooInto(m, v - 1) |->
                       OpCall(Op, At(ufeat, src(v, j)), At(efeat, eid(v, j)))]
        arg(v) == ArgCmp(Cmp, vals(v), 0, 1)
    IN  << [v \in 1..m.num_cols |->
               IF arg(v) = 0 THEN out[v] ELSE vals(v)[arg(v)]],
           [v \in 1..m.num_cols |->
               IF arg(v) = 0 THEN -1 ELSE src(v, arg(v))],
           [v \in 1..m.num_cols |->
               IF arg(v) = 0 THEN -1 ELSE eid(v, arg(v))] >>

\* One kernel invocation: the kernel and its template arguments.
Invoked(kernel, DType, Op, Cmp) ==
    [kernel |-> kernel, DType |-> DType, Op |-> Op, Cmp |-> Cmp]

\* (mutant) reducer "sum" is dispatched to the comparison kernel
SpMMCsr_SumRunsCmp(name, reduce, bits, m, ufeat, efeat, out) ==
    IF reduce \in {"sum", "max", "min"} THEN
        IF SWITCH_BITS(bits) = "" \/ SWITCH_OP(name) = "" THEN KernelFatal(out)
        ELSE LET Cmp == IF reduce = "min" THEN "Min" ELSE "Max"
                 r == SpMMCmpCsr(SWITCH_OP(name), Cmp, m, ufeat, efeat, out)
             IN  KernelResult(FALSE,
                     <<Invoked("SpMMCmpCsr", SWITCH_BITS(bits), SWITCH_OP(name), Cmp)>>,
                     r[1], <<r[2], r[3]>>)
    ELSE KernelFatal(out)

\* SpMMCsr(op, reduce, bcast, csr, ufeat, efeat, out, out_aux)
SpMMCsr(name, reduce, bits, m, ufeat, efeat, out) ==
    IF reduce = "sum" THEN
        IF SWITCH_BITS(bits) = "" \/ SWITCH_OP(name) = "" THEN KernelFatal(out)
        ELSE KernelResult(FALSE,
                 <<Invoked("SpMMSumCsr", SWITCH_BITS(bits), SWITCH_OP(name), "")>>,
                 SpMMSumCsr(SWITCH_OP(name), m, ufeat, efeat, out), <<>>)
    ELSE IF reduce = "max" \/ reduce = "min" THEN
        IF SWITCH_BITS(bits) = "" \/ SWITCH_OP(name) = "" THEN KernelFatal(out)
        ELSE LET Cmp == IF reduce = "max" THEN "Max" ELSE "Min"
                 r == SpMMCmpCsr(SWITCH_OP(name), Cmp, m, ufeat, efeat, out)
             IN  KernelResult(FALSE,
                     <<Invoked("SpMMCmpCsr", SWITCH_BITS(bits), SWITCH_OP(name), Cmp)>>,
                     r[1], <<r[2], r[3]>>)
    ELSE KernelFatal(out)

\* (mutant) a reducer that is neither sum, max nor min is run as sum
SpMMCoo_DefaultsToSum(name, reduce, bits, m, ufeat, efeat, out) ==
    IF SWITCH_BITS(bits) = "" \/ SWITCH_OP(name) = "" THEN KernelFatal(out)
    ELSE KernelResult(FALSE,
             <<Invoked("SpMMSumCoo", SWITCH_BITS(bits), SWITCH_OP(name), "")>>,
             SpMMSumCoo(SWITCH_OP(name), m, ufeat, efeat, out), <<>>)

\* SpMMCoo(op, reduce, bcast, coo, ufeat, efeat, out, out_aux)
SpMMCoo(name, reduce, bits, m, ufeat, efeat, out) ==
    IF reduce = "sum" THEN
        IF SWITCH_BITS(bits) = "" \/ SWITCH_OP(name) = "" THEN KernelFatal(out)
        ELSE KernelResult(FALSE,
                 <<Invoked("SpMMSumCoo", SWITCH_BITS(bits), SWITCH_OP(name), "")>>,
                 SpMMSumCoo(SWITCH_OP(name), m, ufeat, efeat, out), <<>>)
    ELSE IF reduce = "max" \/ reduce = "min" THEN
        IF SWITCH_BITS(bits) = "" \/ SWITCH_OP(name) = "" THEN KernelFatal(out)
        ELSE LET Cmp == IF reduce = "max" THEN "Max" ELSE "Min"
                 r == SpMMCmpCoo(SWITCH_OP(name), Cmp, m, ufeat, efeat, out)
             IN  KernelResult(FALSE,
                     <<Invoked("SpMMCmpCoo", SWITCH_BITS(bits), SWITCH_OP(name), Cmp)>>,
                     r[1], <<r[2], r[3]>>)
    ELSE KernelFatal(out)

\* One relation of SpMMCsrHetero's loop: vec_out and the kernels so far,
\* after relation etype (from 0) and those before it.
RECURSIVE HeteroLoop(_, _, _, _, _, _, _, _)
HeteroLoop(Op, DType, vec_csr, vec_ufeat, efeat, vec_out, ufeat_eid, out_eid) ==
    IF Len(ufeat_eid) = 0 THEN KernelResult(FALSE, <<>>, vec_out, <<>>)
    ELSE LET n == Len(ufeat_eid)
             before == HeteroLoop(Op, DType, SubSeq(vec_csr, 1, n - 1), vec_ufeat,
                                  efeat, vec_out, SubSeq(ufeat_eid, 1, n - 1),
                                  SubSeq(out_eid, 1, n - 1))
             src_id == ufeat_eid[n]
             dst_id == out_eid[n]
         IN  KernelResult(FALSE,
                 Append(before.kernels, Invoked("SpMMSumCsr", DType, Op, "")),
                 [before.out EXCEPT ![dst_id + 1] =
                     SpMMSumCsr(Op, vec_csr[n], At(vec_ufeat, src_id), efeat,
                                At(before.out, dst_id))],
                 <<>>)

\* (mutant) the max/min branch is live and walks the relations
SpMMCsrHetero_CmpBranchLive(name, reduce, bits, vec_csr, vec_ufeat, efeat, vec_out, ufeat_eid, out_eid) ==
    IF reduce \in {"sum", "max", "min"} THEN
        IF SWITCH_BITS(bits) = "" \/ SWITCH_OP(name) = "" THEN KernelFatal(vec_out)
        ELSE HeteroLoop(SWITCH_OP(name), SWITCH_BITS(bits), vec_csr, vec_ufeat,
                        efeat, vec_out, ufeat_eid, out_eid)
    ELSE KernelFatal(vec_out)

\* SpMMCsrHetero(op, reduce, bcast, vec_csr, vec_ufeat, efeat, vec_out,
\* out_aux, ufeat_eid, out_eid)
SpMMCsrHetero(name, reduce, bits, vec_csr, vec_ufeat, efeat, vec_out, ufeat_eid, out_eid) ==
    IF reduce = "sum" THEN
        IF SWITCH_BITS(bits) = "" \/ SWITCH_OP(name) = "" THEN KernelFatal(vec_out)
        ELSE HeteroLoop(SWITCH_OP(name), SWITCH_BITS(bits), vec_csr, vec_ufeat,
                        efeat, vec_out, ufeat_eid, out_eid)
    ELSE KernelFatal(vec_out)

\* cpu::SegmentSum<IdType, DType>(feat, offsets, out)
SegmentSum(feat, offsets, out) ==
    [s \in 1..(Len(offsets) - 1) |->
        SumSeq(SubSeq(feat, At(offsets, s - 1) + 1, At(offsets, s)))]

\* cpu::SegmentCmp<IdType, DType, Cmp>(feat, offsets, out, arg): <<out, arg>>;
\* an empty segment keeps its fill value and gets -1 in arg.
SegmentCmp(Cmp, feat, offsets, out) ==
    LET vals(s) == SubSeq(feat, At(offsets, s - 1) + 1, At(offsets, s))
        at(s) == ArgCmp(Cmp, vals(s), 0, 1)
    IN  << [s \in 1..(Len(offsets) - 1) |->
               IF at(s) = 0 THEN out[s] ELSE vals(s)[at(s)]],
           [s \in 1..(Len(offsets) - 1) |->
               IF at(s) = 0 THEN -1 ELSE At(offsets, s - 1) + at(s) - 1] >>

\* SegmentReduce(op, feat, offsets, out, arg)
SegmentReduce(name, bits, feat, offsets, out) ==
    IF name = "sum" THEN
        IF SWITCH_BITS(bits) = "" THEN KernelFatal(out)
        ELSE KernelResult(FALSE,
                 <<Invoked("SegmentSum", SWITCH_BITS(bits), "", "")>>,
                 SegmentSum(feat, offsets, out), <<>>)
    ELSE IF name = "max" \/ name = "min" THEN
        IF SWITCH_BITS(bits) = "" THEN KernelFatal(out)
        ELSE LET Cmp == IF name = "max" THEN "Max" ELSE "Min"
                 r == SegmentCmp(Cmp, feat, offsets, out)
             IN  KernelResult(FALSE,
                     <<Invoked("SegmentCmp", SWITCH_BITS(bits), "", Cmp)>>,
                     r[1], <<r[2]>>)
    ELSE KernelFatal(out)

\* The entry points a caller of the SpMM family can reach.
SpmmFns == {"SpMMCsr", "SpMMCoo", "SpMMCsrHetero", "SegmentReduce"}

\* The edges with source and destination exchanged (the second relation).
Reversed(edges) == [j \in DOMAIN edges |-> <<edges[j][2], edges[j][1]>>]

InitSpmm ==
    /\ \E edges \in EdgeLists :
           kreq \in [edges  : {edges},
                     ufeat  : {<<1, 2>>},
                     efeat  : {[j \in DOMAIN edges |-> j + 2]},
                     op     : OpNames,
                     reduce : ReduceNames,
                     bits   : BitsChoices,
                     out    : {StaleOut(Cardinality(KNodeIds))}]
    /\ kres = [f \in SpmmFns |-> NotCalled]
    /\ IdleComm
    /\ IdleUid
    /\ IdleCsr
    /\ IdleCoo
    /\ IdleAtom
    /\ IdleWalk
    /\ IdleUnion

CallSpMMCsr ==
    /\ kres["SpMMCsr"] = NotCalled
    /\ kres' = [kres EXCEPT !["SpMMCsr"] =
                   SpMMCsr(kreq.op, kreq.reduce, kreq.bits, InCsr(kreq.edges),
                           kreq.ufeat, kreq.efeat, kreq.out)]
    /\ UNCHANGED <<kreq, nonKernVars>>

CallSpMMCoo ==
    /\ kres["SpMMCoo"] = NotCalled
    /\ kres' = [kres EXCEPT !["SpMMCoo"] =
                   SpMMCoo(kreq.op, kreq.reduce, kreq.bits, AsCoo(kreq.edges),
                           kreq.ufeat, kreq.efeat, kreq.out)]
    /\ UNCHANGED <<kreq, nonKernVars>>

CallSpMMCsrHetero ==
    /\ kres["SpMMCsrHetero"] = NotCalled
    /\ kres' = [kres EXCEPT !["SpMMCsrHetero"] =
                   SpMMCsrHetero(kreq.op, kreq.reduce, kreq.bits,
                       <<InCsr(kreq.edges), InCsr(Reversed(kreq.edges))>>,
                       <<kreq.ufeat, kreq.ufeat>>, kreq.efeat,
                       <<kreq.out, kreq.out>>, <<0, 1>>, <<1, 0>>)]
    /\ UNCHANGED <<kreq, nonKernVars>>

CallSegmentReduce ==
    /\ kres["SegmentReduce"] = NotCalled
    /\ kres' = [kres EXCEPT !["SegmentReduce"] =
                   SegmentReduce(kreq.reduce, kreq.bits, kreq.efeat,
                                 InCsr(kreq.edges).indptr, kreq.out)]
    /\ UNCHANGED <<kreq, nonKernVars>>

NextSpmm ==
    \/ CallSpMMCsr
    \/ CallSpMMCoo
    \/ CallSpMMCsrHetero
    \/ CallSegmentReduce

SpecSpmm == InitSpmm /\ [][NextSpmm]_vars

\* C11: SpMMCsr, SpMMCoo and SegmentReduce end in LOG(FATAL), invoke no
\* kernel and leave out as it was, for every reducer name other than "sum",
\* "max" and "min".
C11_UnsupportedReducerIsFatal ==
    \A f \in {"SpMMCsr", "SpMMCoo", "SegmentReduce"} :
        (kres[f] # NotCalled /\ kreq.reduce \notin {"sum", "max", "min"})
        => (/\ kres[f].fatal
            /\ kres[f].kernels = <<>>
            /\ kres[f].out = kreq.out)

C11_Witness ==
    /\ kreq.reduce = "mean"
    /\ kreq.op = "add"
    /\ Len(kreq.edges) > 0
    /\ \A f \in {"SpMMCsr", "SpMMCoo", "SegmentReduce"} :
           kres[f] # NotCalled /\ kres[f].fatal

\* C12: SpMMCsrHetero invokes the kernel once per relation for reducer
\* "sum"; for "max", "min" and every other reducer it ends in LOG(FATAL)
\* before any relation is processed and every output tensor is as it was.
C12_HeteroOnlySum ==
    kres["SpMMCsrHetero"] # NotCalled
    => IF kreq.reduce = "sum" /\ SWITCH_OP(kreq.op) # ""
       THEN /\ ~kres["SpMMCsrHetero"].fatal
            /\ Len(kres["SpMMCsrHetero"].kernels) = 2
       ELSE /\ kres["SpMMCsrHetero"].fatal
            /\ kres["SpMMCsrHetero"].kernels = <<>>
            /\ kres["SpMMCsrHetero"].out = <<kreq.out, kreq.out>>

C12_Witness ==
    /\ kreq.reduce = "max"
    /\ kreq.op = "add"
    /\ Len(kreq.edges) > 0
    /\ kres["SpMMCsrHetero"] # NotCalled
    /\ kres["SpMMCsrHetero"].fatal
    /\ kres["SpMMCsr"] # NotCalled
    /\ ~kres["SpMMCsr"].fatal

\* The dense reference: the sum, over the edges (u, v) numbered below n, of
\* U[u] + E[edge id].
RECURSIVE DenseReference(_, _)
DenseReference(v, n) ==
    IF n = 0 THEN 0
    ELSE DenseReference(v, n - 1)
         + (IF At(kreq.edges, n - 1)[2] = v
            THEN At(kreq.ufeat, At(kreq.edges, n - 1)[1]) + At(kreq.efeat, n - 1)
            ELSE 0)

\* C16: SpMMCsr and SpMMCoo with operator "add" and reducer "sum" write, for
\* every destination v, out[v] = the sum over the edges (u, v) of
\* U[u] + E[edge id]; a destination with no incoming edge gets 0.
C16_SpMMAddSumIsDenseReference ==
    \A f \in {"SpMMCsr", "SpMMCoo"} :
        (kres[f] # NotCalled /\ kreq.op = "add" /\ kreq.reduce = "sum")
        => (/\ ~kres[f].fatal
            /\ \A v \in KNodeIds :
                   At(kres[f].out, v) = DenseReference(v, Len(kreq.edges)))

C16_Witness ==
    /\ kreq.op = "add"
    /\ kreq.reduce = "sum"
    /\ kreq.edges = <<<<0, 1>>, <<1, 1>>>>
    /\ kres["SpMMCsr"] # NotCalled
    /\ kres["SpMMCoo"] # NotCalled
    /\ kres["SpMMCsr"].out = <<0, 10>>
    /\ kres["SpMMCoo"].out = <<0, 10>>


-----------------------------------------------------------------------------
(* The SDDMM entry points SDDMMCsr and SDDMMCoo (sddmm.cc).  The kernels
   cpu::SDDMMCsr and cpu::SDDMMCoo and the macro SWITCH_OP_SDDMM live in
   sddmm.h. *)

\* The operand targets a caller passes; 3 is not a target.
TargetArgs == 0..3

\* (mutant) the branches for targets 0 and 1 instantiate each other's kernel
SWITCH_RHS_SrcDstSwapped(rhs_target) ==
    IF rhs_target = 0 THEN 1
    ELSE IF rhs_target = 1 THEN 0
    ELSE IF rhs_target = 2 THEN 2
    ELSE -1

\* SWITCH_RHS: the RhsTarget the kernel is instantiated with, -1 when the
\* macro only logs "Invalid rhs target"
SWITCH_RHS(rhs_target) ==
    IF rhs_target = 0 THEN 0
    ELSE IF rhs_target = 1 THEN 1
    ELSE IF rhs_target = 2 THEN 2
    ELSE -1

\* SWITCH_TARGET: <<LhsTarget, RhsTarget>>, -1 for a target the macro only
\* logs as invalid
SWITCH_TARGET(lhs_target, rhs_target) ==
    IF lhs_target = 0 THEN <<0, SWITCH_RHS(rhs_target)>>
    ELSE IF lhs_target = 1 THEN <<1, SWITCH_RHS(rhs_target)>>
    ELSE IF lhs_target = 2 THEN <<2, SWITCH_RHS(rhs_target)>>
    ELSE <<-1, -1>>

\* SWITCH_OP_SDDMM: the operator functor the name selects, "" when LOG(FATAL)
SWITCH_OP_SDDMM(name) ==
    IF name \in {"add", "sub", "mul", "div", "copy_lhs", "copy_rhs"} THEN name
    ELSE ""

\* Selector<Target>::Call(src, dst, edge): 0 source, 1 destination, 2 edge
SelectTarget(Target, src, dst, edge) ==
    IF Target = 0 THEN src ELSE IF Target = 1 THEN dst ELSE edge

\* cpu::SDDMMCsr<IdType, DType, Op, LhsTarget, RhsTarget>(bcast, csr, lhs,
\* rhs, out): row rid is the source, indices the destination, data the edge id
SDDMMCsrKernel(Op, LhsTarget, RhsTarget, m, lhs, rhs, out) ==
    LET rowOf(ptr) == CHOOSE rid \in 0..(m.num_rows - 1) :
                          At(m.indptr, rid) <= ptr /\ ptr < At(m.indptr, rid + 1)
        written(eid) == {ptr \in 0..(Len(m.indices) - 1) : EdgeIdAt(m, ptr) = eid}
        value(ptr) ==
            OpCall(Op,
                At(lhs, SelectTarget(LhsTarget, rowOf(ptr), At(m.indices, ptr),
                                     EdgeIdAt(m, ptr))),
                At(rhs, SelectTarget(RhsTarget, rowOf(ptr), At(m.indices, ptr),
                                     EdgeIdAt(m, ptr))))
    IN  [e \in DOMAIN out |->
            IF written(e - 1) = {} THEN out[e]
            ELSE value(CHOOSE ptr \in written(e - 1) : TRUE)]

\* cpu::SDDMMCoo<IdType, DType, Op, LhsTarget, RhsTarget>(bcast, coo, lhs,
\* rhs, out)
SDDMMCooKernel(Op, LhsTarget, RhsTarget, m, lhs, rhs, out) ==
    LET written(eid) == {i \in CooPtrs(m) : CooEid(m, i) = eid}
        value(i) ==
            OpCall(Op,
                At(lhs, SelectTarget(LhsTarget, At(m.row, i), At(m.col, i),
                                     CooEid(m, i))),
                At(rhs, SelectTarget(RhsTarget, At(m.row, i), At(m.col, i),
                                     CooEid(m, i))))
    IN  [e \in DOMAIN out |->
            IF written(e - 1) = {} THEN out[e]
            ELSE value(CHOOSE i \in written(e - 1) : TRUE)]

\* One SDDMM kernel invocation: the kernel and its template arguments.
InvokedSddmm(kernel, DType, Op, targets) ==
    [kernel |-> kernel, DType |-> DType, Op |-> Op,
     LhsTarget |-> targets[1], RhsTarget |-> targets[2]]

\* SDDMMCsr(sddmm_op, bcast, csr, lhs, rhs, out, lhs_target, rhs_target)
SDDMMCsr(sddmm_op, bits, m, lhs, rhs, out, lhs_target, rhs_target) ==
    IF SWITCH_BITS(bits) = "" \/ SWITCH_OP_SDDMM(sddmm_op) = "" THEN KernelFatal(out)
    ELSE LET t == SWITCH_TARGET(lhs_target, rhs_target)
         IN  IF t[1] = -1 \/ t[2] = -1
             THEN KernelResult(FALSE, <<>>, out, <<>>)
             ELSE KernelResult(FALSE,
                      <<InvokedSddmm("SDDMMCsr", SWITCH_BITS(bits),
                                     SWITCH_OP_SDDMM(sddmm_op), t)>>,
                      SDDMMCsrKernel(SWITCH_OP_SDDMM(sddmm_op), t[1], t[2],
                                     m, lhs, rhs, out),
                      <<>>)

\* SDDMMCoo(sddmm_op, bcast, coo, lhs, rhs, out, lhs_target, rhs_target)
SDDMMCoo(sddmm_op, bits, m, lhs, rhs, out, lhs_target, rhs_target) ==
    IF SWITCH_BITS(bits) = "" \/ SWITCH_OP_SDDMM(sddmm_op) = "" THEN KernelFatal(out)
    ELSE LET t == SWITCH_TARGET(lhs_target, rhs_target)
         IN  IF t[1] = -1 \/ t[2] = -1
             THEN KernelResult(FALSE, <<>>, out, <<>>)
             ELSE KernelResult(FALSE,
                      <<InvokedSddmm("SDDMMCoo", SWITCH_BITS(bits),
                                     SWITCH_OP_SDDMM(sddmm_op), t)>>,
                      SDDMMCooKernel(SWITCH_OP_SDDMM(sddmm_op), t[1], t[2],
                                     m, lhs, rhs, out),
                      <<>>)

\* The operand tensor a caller passes for a target: one row per node for a
\* source or destination operand, one row per edge for an edge operand.
Operand(target, edges, base) ==
    [j \in 1..(IF target = 2 THEN Len(edges) ELSE Cardinality(KNodeIds)) |->
        base + j]

SddmmFns == {"SDDMMCsr", "SDDMMCoo"}

InitSddmm ==
    /\ \E edges \in EdgeLists :
       \E lt \in TargetArgs :
       \E rt \in TargetArgs :
           kreq \in [edges      : {edges},
                     lhs        : {Operand(lt, edges, 0)},
                     rhs        : {Operand(rt, edges, 4)},
                     op         : OpNames,
                     bits       : BitsChoices,
                     lhs_target : {lt},
                     rhs_target : {rt},
                     out        : {StaleOut(Len(edges))}]
    /\ kres = [f \in SddmmFns |-> NotCalled]
    /\ IdleComm
    /\ IdleUid
    /\ IdleCsr
    /\ IdleCoo
    /\ IdleAtom
    /\ IdleWalk
    /\ IdleUnion

CallSDDMMCsr ==
    /\ kres["SDDMMCsr"] = NotCalled
    /\ kres' = [kres EXCEPT !["SDDMMCsr"] =
                   SDDMMCsr(kreq.op, kreq.bits, InCsr(Reversed(kreq.edges)),
                            kreq.lhs, kreq.rhs, kreq.out,
                            kreq.lhs_target, kreq.rhs_target)]
    /\ UNCHANGED <<kreq, nonKernVars>>

CallSDDMMCoo ==
    /\ kres["SDDMMCoo"] = NotCalled
    /\ kres' = [kres EXCEPT !["SDDMMCoo"] =
                   SDDMMCoo(kreq.op, kreq.bits, AsCoo(kreq.edges),
                            kreq.lhs, kreq.rhs, kreq.out,
                            kreq.lhs_target, kreq.rhs_target)]
    /\ UNCHANGED <<kreq, nonKernVars>>

NextSddmm ==
    \/ CallSDDMMCsr
    \/ CallSDDMMCoo

SpecSddmm == InitSddmm /\ [][NextSddmm]_vars

\* C13: for every operator and every (lhs_target, rhs_target) in
\* {0,1,2} x {0,1,2}, SDDMMCsr and SDDMMCoo on the same edges leave the same
\* per-edge output, and each invokes exactly one kernel, with the same
\* operator, the same compute type and the two requested targets.
C13_SddmmCsrCooAgree ==
    (/\ kres["SDDMMCsr"] # NotCalled
     /\ kres["SDDMMCoo"] # NotCalled
     /\ kreq.lhs_target \in {0, 1, 2}
     /\ kreq.rhs_target \in {0, 1, 2}
     /\ SWITCH_OP_SDDMM(kreq.op) # "")
    => (/\ kres["SDDMMCsr"].out = kres["SDDMMCoo"].out
        /\ \A f \in SddmmFns :
            /\ ~kres[f].fatal
            /\ Len(kres[f].kernels) = 1
            /\ kres[f].kernels[1].kernel = f
            /\ kres[f].kernels[1].Op = kreq.op
            /\ kres[f].kernels[1].DType = (IF kreq.bits = 64 THEN "double" ELSE "float")
            /\ kres[f].kernels[1].LhsTarget = kreq.lhs_target
            /\ kres[f].kernels[1].RhsTarget = kreq.rhs_target)

C13_Witness ==
    /\ kres["SDDMMCsr"] # NotCalled
    /\ kres["SDDMMCoo"] # NotCalled
    /\ kreq.lhs_target = 1
    /\ kreq.rhs_target = 1
    /\ kreq.op = "sub"
    /\ kreq.edges = <<<<1, 0>>, <<0, 1>>>>
    /\ kres["SDDMMCsr"].out = <<-4, -4>>
    /\ kres["SDDMMCoo"].out = <<-4, -4>>

\* C25: SDDMMCsr and SDDMMCoo never return normally without having run the
\* kernel: a call whose lhs_target or rhs_target is outside {0,1,2} aborts
\* fatally instead of returning with out unwritten.
C25_SddmmNeverSkipsKernel ==
    \A f \in SddmmFns :
        kres[f] # NotCalled =>
            /\ ~kres[f].fatal => Len(kres[f].kernels) = 1
            /\ (kreq.lhs_target \notin {0, 1, 2} \/ kreq.rhs_target \notin {0, 1, 2})
                  => kres[f].fatal

\* A call with both targets in {0,1,2} and a known operator runs the kernel.
SddmmRunsKernelOnValidTargets ==
    \A f \in SddmmFns :
        (/\ kres[f] # NotCalled
         /\ kreq.lhs_target \in {0, 1, 2}
         /\ kreq.rhs_target \in {0, 1, 2})
        => (kres[f].fatal \/ Len(kres[f].kernels) = 1)


-----------------------------------------------------------------------------
(* AtomicMax, AtomicMin, AtomicAdd of atomic.cuh: the compare-and-swap loop
   DEFINE_ATOMIC expands to, and the loop DEFINE_ATOMIC_HALF expands to for
   AtomicMax<half> and AtomicMin<half> under USE_AMP, run by several threads
   on one address.  T is a two-byte type, a two-byte integer for
   DEFINE_ATOMIC or half for DEFINE_ATOMIC_HALF, so the code type is
   Code<2>::Type, unsigned short.  atomicCASshort depends on the build:
   it is atomicCAS when CUDART_VERSION > 10000 and __CUDA_ARCH__ >= 700,
   and otherwise returns val without touching the address. *)

\* Largest number of threads updating the address.
MaxAtomicThreads == 3

\* Code<2>::Type is unsigned short: 16 bits.
CodeBits == 16

Operands == {-1, 1, 2}
InitialValues == {-1, 0, 2}

\* The instantiations and the builds they exist in: Atomic##NAME<T> of
\* DEFINE_ATOMIC for Max, Min and Add, whose atomicCAS on unsigned short
\* exists only where __CUDA_ARCH__ >= 700 (native); Atomic##NAME<half> of
\* DEFINE_ATOMIC_HALF for Max and Min only, in either build.
AtomicFns ==
    {f \in [NAME : {"Max", "Min", "Add"}, T : {"short", "half"},
            native : BOOLEAN] :
        /\ f.T = "half" => f.NAME \in {"Max", "Min"}
        /\ f.T = "short" => f.native}

\* __half_as_ushort on an integral half value: sign bit, five exponent
\* bits biased by 15, ten mantissa bits.
half_as_ushort(val) ==
    LET mag == IF val < 0 THEN -val ELSE val
        e == CHOOSE k \in 0..10 : Pow2(k) <= mag /\ mag < Pow2(k + 1)
    IN  IF val = 0 THEN 0
        ELSE (IF val < 0 THEN Pow2(15) ELSE 0)
             + (e + 15) * Pow2(10) + (mag - Pow2(e)) * Pow2(10 - e)

\* __ushort_as_half, on the bit patterns of integral values
ushort_as_half(code) ==
    LET sign == code \div Pow2(15)
        exp == (code % Pow2(15)) \div Pow2(10)
        man == code % Pow2(10)
        mag == IF exp = 0 THEN 0
               ELSE IF exp >= 25 THEN (Pow2(10) + man) * Pow2(exp - 25)
               ELSE (Pow2(10) + man) \div Pow2(25 - exp)
    IN  IF sign = 1 THEN -mag ELSE mag

\* Cast<T>::Encode: static_cast to the unsigned code type;
\* Cast<half>::Encode: __half_as_ushort
Encode(T, val) ==
    IF T = "half" THEN half_as_ushort(val) ELSE val % Pow2(CodeBits)

\* Cast<T>::Decode: static_cast back to the signed T;
\* Cast<half>::Decode: __ushort_as_half
Decode(T, code) ==
    IF T = "half" THEN ushort_as_half(code)
    ELSE IF code >= Pow2(CodeBits - 1) THEN code - Pow2(CodeBits) ELSE code

\* OP(a, b) as defined before each DEFINE_ATOMIC(NAME)
OP(NAME, a, b) ==
    CASE NAME = "Max" -> Max(a, b)
      [] NAME = "Min" -> Min(a, b)
      [] NAME = "Add" -> a + b

\* atomicCAS(address, compare, val): the value returned and the value the
\* address holds afterwards (mem is *address before the call).
atomicCAS(mem, compare, val) ==
    [old |-> mem, mem |-> IF mem = compare THEN val ELSE mem,
     stored |-> mem = compare]

\* atomicCASshort(address, compare, val): atomicCAS when the build has
\* CUDART_VERSION > 10000 and __CUDA_ARCH__ >= 700 (native); otherwise both
\* #if blocks are empty and the function is return val, with no access to
\* the address.
atomicCASshort(native, mem, compare, val) ==
    IF native THEN atomicCAS(mem, compare, val)
    ELSE [old |-> val, mem |-> mem, stored |-> FALSE]

\* while (assumed != old)
LoopAgain(assumed, old) == assumed # old

InitAtom ==
    /\ \E f \in AtomicFns, initial \in InitialValues :
           atom = [NAME |-> f.NAME, T |-> f.T, native |-> f.native,
                   initial |-> initial]
    /\ cell = Encode(atom.T, atom.initial)
    /\ \E n \in 1..MaxAtomicThreads :
           thr \in [1..n -> [val : Operands, old : {0}, assumed : {0},
                             pc : {"entry"}, swapped : {<<>>}, ret : {0}]]
    /\ IdleComm
    /\ IdleUid
    /\ IdleCsr
    /\ IdleCoo
    /\ IdleKern
    /\ IdleWalk
    /\ IdleUnion

\* CT old = *addr_as_ui; CT assumed = old;
AtomicLoad(t) ==
    /\ thr[t].pc = "entry"
    /\ thr' = [thr EXCEPT ![t].old = cell, ![t].assumed = cell, ![t].pc = "loop"]
    /\ UNCHANGED <<atom, cell, nonAtomVars>>

\* One pass of the do-while body: assumed = old; old = atomicCAS(addr_as_ui,
\* assumed, Encode(OP(val, Decode(old)))), atomicCASshort in place of
\* atomicCAS in DEFINE_ATOMIC_HALF; then the loop test and, when the loop
\* ends, return Decode(old).  swapped records the code the address held
\* when this thread's compare-and-swap stored its value.
AtomicCAS(t) ==
    /\ thr[t].pc = "loop"
    /\ LET assumed == thr[t].old
           wanted == Encode(atom.T,
                         OP(atom.NAME, thr[t].val, Decode(atom.T, thr[t].old)))
           cas == IF atom.T = "half"
                  THEN atomicCASshort(atom.native, cell, assumed, wanted)
                  ELSE atomicCAS(cell, assumed, wanted)
       IN  /\ cell' = cas.mem
           /\ thr' = [thr EXCEPT
                  ![t].assumed = assumed,
                  ![t].old = cas.old,
                  ![t].swapped = IF cas.stored THEN <<cell>> ELSE @,
                  ![t].pc = IF LoopAgain(assumed, cas.old)
                            THEN "loop" ELSE "returned",
                  ![t].ret = IF LoopAgain(assumed, cas.old)
                             THEN @ ELSE Decode(atom.T, cas.old)]
    /\ UNCHANGED <<atom, nonAtomVars>>

NextAtom ==
    \/ \E t \in DOMAIN thr : AtomicLoad(t)
    \/ \E t \in DOMAIN thr : AtomicCAS(t)

SpecAtom == InitAtom /\ [][NextAtom]_vars

\* OP folded over the initial value and the operands of threads 1..n.
RECURSIVE Combined(_)
Combined(n) ==
    IF n = 0 THEN atom.initial
    ELSE OP(atom.NAME, thr[n].val, Combined(n - 1))

\* The address holds the combination of the initial value and all operands
\* once every thread has returned.
NoUpdateLost ==
    (\A t \in DOMAIN thr : thr[t].pc = "returned")
    => Decode(atom.T, cell) = Combined(Len(thr))

\* Every call that has returned stored its value and returns what the
\* address held immediately before that store.
ReturnsValueReplaced ==
    \A t \in DOMAIN thr :
        thr[t].pc = "returned"
        => (thr[t].swapped # <<>>
            /\ thr[t].ret = Decode(atom.T, thr[t].swapped[1]))

\* C14: when every thread has returned from its AtomicMax (AtomicMin,
\* AtomicAdd through the compare-and-swap loop) the address holds the max
\* (min, sum) of the initial value and all operands, and every call that
\* has returned returns the value the address held immediately before
\* its own successful compare-and-swap.
C14_AtomicUpdatesAreNotLost ==
    /\ NoUpdateLost
    /\ ReturnsValueReplaced

\* The loop is built on a real compare-and-swap: DEFINE_ATOMIC, or
\* DEFINE_ATOMIC_HALF where atomicCASshort is atomicCAS.
LoopUsesAtomicCAS == atom.T = "half" => atom.native

\* On a real compare-and-swap no update is lost and every call returns the
\* value it replaced.
AtomicCASLoopLosesNoUpdate ==
    LoopUsesAtomicCAS => C14_AtomicUpdatesAreNotLost

\* Three AtomicAdd calls have interleaved and the address holds the sum.
AtomicCASLoopRan ==
    /\ atom.NAME = "Add"
    /\ Len(thr) = 3
    /\ \A t \in DOMAIN thr : thr[t].pc = "returned"
    /\ \E t \in DOMAIN thr : thr[t].ret # atom.initial /\ thr[t].assumed = thr[t].old
    /\ \E t, u \in DOMAIN thr : t # u /\ thr[t].ret = thr[u].ret + thr[u].val
    /\ Decode(atom.T, cell) = -3

\* AtomicMax<half> and AtomicMin<half> have interleaved on a real
\* compare-and-swap.
HalfCASLoopRan ==
    /\ atom.T = "half"
    /\ atom.native
    /\ Len(thr) = 3
    /\ \A t \in DOMAIN thr : thr[t].pc = "returned"
    /\ \E t \in DOMAIN thr : thr[t].ret # atom.initial
    /\ Decode(atom.T, cell) # atom.initial

\* Where atomicCASshort is return val: every call has returned, the address
\* does not hold the combination, and a call returned a value the address
\* never held.
HalfUpdateLost ==
    /\ atom.T = "half"
    /\ ~atom.native
    /\ \A t \in DOMAIN thr : thr[t].pc = "returned"
    /\ Decode(atom.T, cell) = atom.initial
    /\ Combined(Len(thr)) # atom.initial
    /\ \E t \in DOMAIN thr : thr[t].ret # atom.initial

\* Where atomicCASshort is return val, a call whose operand improves on the
\* value it read returns the combination and leaves the address as it was.
HalfLoopWithoutCASStoresNothing ==
    (atom # <<>> /\ atom.T = "half" /\ ~atom.native)
    => /\ cell = Encode(atom.T, atom.initial)
       /\ \A t \in DOMAIN thr :
              thr[t].pc = "returned"
              => /\ thr[t].swapped = <<>>
                 /\ thr[t].ret = OP(atom.NAME, thr[t].val, atom.initial)

-----------------------------------------------------------------------------
(* Node2vecGenericRandomWalk of node2vec_randomwalk.cc: one loop iteration per
   seed, run in parallel (#pragma omp parallel for); every iteration of the
   inner loops is one step of the seed's thread. *)

\* Largest number of seeds of a call.
MaxSeeds == 2
\* Largest walk_length a caller passes.
MaxWalkLength == 1
\* What a cell of IdArray::Empty holds before it is written.
WalkEmpty == -2

\* edges = g->GetAdj(0, true, "csr") of the graph 0 -> 1, 1 -> 0, 1 -> 2:
\* edges[0] are the offsets, edges[1] the successors; node 2 is isolated.
WalkOffsets == <<0, 1, 3, 3>>
WalkSucc == <<1, 0, 2>>
WalkNodes == 0..(Len(WalkOffsets) - 2)

\* Node2vecRandomWalkStep: the (next node, terminate) pairs a call can return.
\* With p, q > 0 the rejection loop can accept every successor of curr; the
\* terminate predicate is the caller's.
Node2vecRandomWalkStep(curr, pre, len) ==
    LET size == At(WalkOffsets, curr + 1) - At(WalkOffsets, curr)
    IN  IF size = 0 THEN {<<-1, TRUE>>}
        ELSE {<<At(WalkSucc, At(WalkOffsets, curr) + idx), term>> :
                 idx \in 0..(size - 1), term \in BOOLEAN}

\* walk_length = walk_length + 1: the length of a row of traces, and the
\* bound of the two inner loops
TraceLength(walk_length) == walk_length + 1

InitWalk ==
    /\ \E n \in 0..MaxSeeds :
       \E seeds \in [1..n -> WalkNodes] :
       \E L \in 0..MaxWalkLength :
          /\ walkCall = [seeds       |-> seeds,
                         walk_length |-> L,
                         traces      |-> [c \in 1..(n * TraceLength(L)) |-> WalkEmpty],
                         writes      |-> {},
                         stray       |-> {},
                         fault       |-> FALSE,
                         returned    |-> FALSE,
                         shape       |-> <<>>]
          /\ walkThr = [s \in 0..(n - 1) |->
                           [pc |-> "start", i |-> 0, curr |-> 0, pre |-> 0,
                            steps |-> 0]]
    /\ IdleComm
    /\ IdleUid
    /\ IdleCsr
    /\ IdleCoo
    /\ IdleKern
    /\ IdleAtom
    /\ IdleUnion

\* traces_data[pos] = value by the thread of seed_id.  A position inside the
\* array takes the value; one past its end is foreign memory: the write
\* lands there or the process faults.
WalkStore(call, seed_id, pos, value, faults) ==
    IF pos < Len(call.traces)
    THEN [call EXCEPT !.traces[pos + 1] = value,
                      !.writes = @ \cup {<<seed_id, pos>>}]
    ELSE [call EXCEPT !.writes = @ \cup {<<seed_id, pos>>},
                      !.stray = @ \cup {pos},
                      !.fault = faults]

\* traces_data[seed_id * walk_length] = curr, with curr = pre = seed_data[seed_id]
WalkStart(s) ==
    /\ ~walkCall.fault
    /\ walkThr[s].pc = "start"
    /\ LET seed == walkCall.seeds[s + 1]
           W == TraceLength(walkCall.walk_length)
       IN  /\ walkCall' = WalkStore(walkCall, s, s * W, seed, FALSE)
           /\ walkThr' = [walkThr EXCEPT ![s] =
                             [@ EXCEPT !.pc = "step", !.i = 0,
                                       !.curr = seed, !.pre = seed]]
    /\ UNCHANGED nonWalkVars

\* One iteration of for (i = 0; i < walk_length; ++i): the step, the write of
\* its node at i + 1, the break when the step says to terminate.
WalkStep(s) ==
    /\ ~walkCall.fault
    /\ walkThr[s].pc = "step"
    /\ LET t == walkThr[s]
           W == TraceLength(walkCall.walk_length)
       IN  IF t.i < W
           THEN \E succ \in Node2vecRandomWalkStep(t.curr, t.pre, t.i) :
                \E faults \in BOOLEAN :
                   /\ walkCall' = WalkStore(walkCall, s, s * W + t.i + 1,
                                            succ[1], faults)
                   /\ (s * W + t.i + 1 < Len(walkCall.traces)) => ~faults
                   /\ walkThr' = [walkThr EXCEPT ![s] =
                                     [@ EXCEPT !.pre = t.curr,
                                               !.curr = succ[1],
                                               !.steps = @ + 1,
                                               !.i = IF succ[2] THEN @ ELSE @ + 1,
                                               !.pc = IF succ[2] THEN "fill"
                                                      ELSE "step"]]
           ELSE /\ walkThr' = [walkThr EXCEPT ![s].pc = "fill"]
                /\ UNCHANGED walkCall
    /\ UNCHANGED nonWalkVars

\* One iteration of for (; i < walk_length; ++i) traces_data[... + i + 1] = -1
WalkFill(s) ==
    /\ ~walkCall.fault
    /\ walkThr[s].pc = "fill"
    /\ LET t == walkThr[s]
           W == TraceLength(walkCall.walk_length)
       IN  IF t.i < W
           THEN \E faults \in BOOLEAN :
                   /\ walkCall' = WalkStore(walkCall, s, s * W + t.i + 1, -1,
                                            faults)
                   /\ (s * W + t.i + 1 < Len(walkCall.traces)) => ~faults
                   /\ walkThr' = [walkThr EXCEPT ![s].i = @ + 1]
           ELSE /\ walkThr' = [walkThr EXCEPT ![s].pc = "done"]
                /\ UNCHANGED walkCall
    /\ UNCHANGED nonWalkVars

\* return traces, after the parallel loop has joined
WalkReturn ==
    /\ ~walkCall.fault
    /\ ~walkCall.returned
    /\ \A s \in DOMAIN walkThr : walkThr[s].pc = "done"
    /\ walkCall' = [walkCall EXCEPT
                       !.returned = TRUE,
                       !.shape = <<Len(walkCall.seeds),
                                   TraceLength(walkCall.walk_length)>>]
    /\ UNCHANGED <<walkThr, nonWalkVars>>

NextWalk ==
    \/ \E s \in DOMAIN walkThr : WalkStart(s)
    \/ \E s \in DOMAIN walkThr : WalkStep(s)
    \/ \E s \in DOMAIN walkThr : WalkFill(s)
    \/ WalkReturn

SpecWalk == InitWalk /\ [][NextWalk]_vars

\* The cells (from 0) of the row of seed_id in an array of rows of length
\* walk_length + 1.
OwnRow(seed_id) ==
    (seed_id * (walkCall.walk_length + 1))
        ..((seed_id + 1) * (walkCall.walk_length + 1) - 1)

\* C24: the returned array has shape (len(seeds), walk_length + 1), and each
\* seed's walk writes only the walk_length + 1 cells of its own row: cell 0
\* is the seed, at most walk_length steps are taken, and no write lands in
\* another seed's row or past the end of the array, whatever the interleaving.
C24_WalkStaysInOwnRow ==
    /\ walkCall.returned =>
          /\ walkCall.shape = <<Len(walkCall.seeds), walkCall.walk_length + 1>>
          /\ \A s \in DOMAIN walkThr :
                walkCall.traces[s * (walkCall.walk_length + 1) + 1]
                    = walkCall.seeds[s + 1]
    /\ \A w \in walkCall.writes : w[2] \in OwnRow(w[1])
    /\ walkCall.stray = {}
    /\ \A s \in DOMAIN walkThr : walkThr[s].steps <= walkCall.walk_length

\* What the loops do keep to: a seed's writes stay in its own row and the one
\* cell after it, it takes at most walk_length + 1 steps, and the shape is
\* (len(seeds), walk_length + 1).
WalkOverrunsByOneCell ==
    /\ walkCall.returned =>
          walkCall.shape = <<Len(walkCall.seeds), walkCall.walk_length + 1>>
    /\ \A w \in walkCall.writes :
          w[2] \in OwnRow(w[1]) \cup {(w[1] + 1) * (walkCall.walk_length + 1)}
    /\ \A s \in DOMAIN walkThr : walkThr[s].steps <= walkCall.walk_length + 1
    /\ \A s \in DOMAIN walkThr :
          walkThr[s].pc = "done" =>
              <<s, (s + 1) * (walkCall.walk_length + 1)>> \in walkCall.writes

-----------------------------------------------------------------------------
(* DisjointUnionHeteroGraph, DisjointUnionHeteroGraph2 and
   DisjointPartitionHeteroBySizes of union_partition.cc.  A heterograph is
   its per-type vertex counts and, per edge type, its (src, dst) pairs in
   edge-id order; a metagraph is its number of vertex types and, per edge
   type, the (src_vtype, dst_vtype) pair FindEdge returns. *)

\* Largest number of component graphs of a call.
MaxGraphs == 2
\* Largest number of vertices of all components and types together.
MaxVertices == 3
\* Largest number of edges of all components and edge types together.
MaxUnionEdges == 1

\* One vertex type with a self relation; two types with relations 0 -> 1 and
\* 1 -> 1; two types of which type 1 is the endpoint of no relation.
MetaGraphs ==
    {[num_vtypes |-> 1, etypes |-> <<<<0, 0>>>>],
     [num_vtypes |-> 2, etypes |-> <<<<0, 1>>, <<1, 1>>>>],
     [num_vtypes |-> 2, etypes |-> <<<<0, 0>>>>]}

\* GetRestrictFormat() of the relation graphs of the components, one per
\* component: unrestricted, in conflict (coo against csr), or all csr.
FormatLists(n) ==
    {[g \in 1..n |-> "any"], [g \in 1..n |-> "csr"]}
        \cup (IF n >= 2
              THEN {[g \in 1..n |-> IF g = 1 THEN "coo" ELSE "csr"]}
              ELSE {})

\* CreateHeteroGraph(meta_graph, rel_graphs, num_nodes_per_type)
CreateHeteroGraph(meta_graph, rel_graphs, num_nodes_per_type) ==
    [num_nodes |-> num_nodes_per_type, edges |-> rel_graphs]

\* HeteroGraph::NumVertices(vtype), NumEdges(etype), Edges(etype)
NumVertices(g, vtype) == At(g.num_nodes, vtype)
NumEdges(g, etype) == Len(At(g.edges, etype))
Edges(g, etype) == At(g.edges, etype)

\* What a call returned: the graphs, or nothing when a CHECK failed.
GraphResult(fatal, graphs) == [fatal |-> fatal, graphs |-> graphs]
GraphFatal == GraphResult(TRUE, <<>>)

\* src_offset / dst_offset before component i (from 1): the vertices of the
\* type in the components before it
OffsetBefore(component_graphs, vtype, i) ==
    SumSeq([k \in 1..(i - 1) |-> NumVertices(component_graphs[k], vtype)])

\* The loop over all graphs and all edges of one edge type: result_src and
\* result_dst, zipped
ShiftedEdges(component_graphs, etype, src_vtype, dst_vtype) ==
    Flatten([i \in 1..Len(component_graphs) |->
        LET edges == Edges(component_graphs[i], etype)
        IN  [j \in 1..NumEdges(component_graphs[i], etype) |->
                <<edges[j][1] + OffsetBefore(component_graphs, src_vtype, i),
                  edges[j][2] + OffsetBefore(component_graphs, dst_vtype, i)>>]])

\* num_nodes_per_type after the loop over the edge types: zero-initialised,
\* then [src_vtype] = src_offset and [dst_vtype] = dst_offset per edge type
NumNodesPerType(meta_graph, component_graphs) ==
    [v \in 1..meta_graph.num_vtypes |->
        IF \E etype \in DOMAIN meta_graph.etypes :
              (v - 1) \in {meta_graph.etypes[etype][1], meta_graph.etypes[etype][2]}
        THEN OffsetBefore(component_graphs, v - 1, Len(component_graphs) + 1)
        ELSE 0]

\* DisjointUnionHeteroGraph<IdType>(meta_graph, component_graphs)
DisjointUnionHeteroGraph(meta_graph, component_graphs) ==
    IF ~(Len(component_graphs) > 0) THEN GraphFatal
    ELSE GraphResult(FALSE,
           <<CreateHeteroGraph(meta_graph,
               [e \in DOMAIN meta_graph.etypes |->
                   ShiftedEdges(component_graphs, e - 1,
                                meta_graph.etypes[e][1], meta_graph.etypes[e][2])],
               NumNodesPerType(meta_graph, component_graphs))>>)

\* format after the preprocess loop: ALL = CSC | CSR | COO, and-ed with the
\* code of every component whose restrict format is one of the three
CommonFormat(formats) ==
    {f \in {"coo", "csr", "csc"} :
        \A g \in DOMAIN formats :
            formats[g] \in {"coo", "csr", "csc"} => formats[g] = f}

\* aten::DisjointUnionCoo(coos) / aten::DisjointUnionCsr(csrs): the entries
\* of the matrices in order, rows and columns shifted by the sizes of the
\* matrices before
DisjointUnionMatrices(component_graphs, etype, src_vtype, dst_vtype) ==
    ShiftedEdges(component_graphs, etype, src_vtype, dst_vtype)

\* DisjointUnionHeteroGraph2(meta_graph, component_graphs)
DisjointUnionHeteroGraph2(meta_graph, component_graphs, formats) ==
    IF ~(Len(component_graphs) > 0) THEN GraphFatal
    ELSE IF meta_graph.etypes # <<>> /\ CommonFormat(formats) = {} THEN GraphFatal
    ELSE GraphResult(FALSE,
           <<CreateHeteroGraph(meta_graph,
               [e \in DOMAIN meta_graph.etypes |->
                   DisjointUnionMatrices(component_graphs, e - 1,
                                meta_graph.etypes[e][1], meta_graph.etypes[e][2])],
               NumNodesPerType(meta_graph, component_graphs))>>)

\* vertex_cumsum[vtype][g] / edge_cumsum[etype][g]: the sum of the first g
\* sizes of the type in the flattened array sizes[type * batch_size + g]
CumSum(sizes, batch_size, type, g) ==
    SumSeq([k \in 1..g |-> At(sizes, type * batch_size + k - 1)])

\* DisjointPartitionHeteroBySizes<IdType>(meta_graph, batched_graph,
\* vertex_sizes, edge_sizes)
DisjointPartitionHeteroBySizes(meta_graph, batched_graph, vertex_sizes, edge_sizes) ==
    LET batch_size == Len(vertex_sizes) \div meta_graph.num_vtypes
        vertex_cumsum(vtype, g) == CumSum(vertex_sizes, batch_size, vtype, g)
        edge_cumsum(etype, g) == CumSum(edge_sizes, batch_size, etype, g)
        chunk(etype, g) ==
            LET src_vtype == At(meta_graph.etypes, etype)[1]
                dst_vtype == At(meta_graph.etypes, etype)[2]
                edges == Edges(batched_graph, etype)
            IN  [j \in 1..(edge_cumsum(etype, g + 1) - edge_cumsum(etype, g)) |->
                    <<At(edges, edge_cumsum(etype, g) + j - 1)[1]
                          - vertex_cumsum(src_vtype, g),
                      At(edges, edge_cumsum(etype, g) + j - 1)[2]
                          - vertex_cumsum(dst_vtype, g)>>]
    IN  IF \E vtype \in 0..(meta_graph.num_vtypes - 1) :
              vertex_cumsum(vtype, batch_size) # NumVertices(batched_graph, vtype)
        THEN GraphFatal
        ELSE IF \E etype \in 0..(Len(meta_graph.etypes) - 1) :
              edge_cumsum(etype, batch_size) # NumEdges(batched_graph, etype)
        THEN GraphFatal
        ELSE GraphResult(FALSE,
               [g \in 1..batch_size |->
                   CreateHeteroGraph(meta_graph,
                       [e \in DOMAIN meta_graph.etypes |-> chunk(e - 1, g - 1)],
                       [i \in 1..meta_graph.num_vtypes |->
                           At(vertex_sizes, (i - 1) * batch_size + g - 1)])])

\* The components' per-type vertex counts, flattened as
\* sizes[vtype * batch_size + g]
VertexSizesOf(meta_graph, component_graphs) ==
    [x \in 1..(meta_graph.num_vtypes * Len(component_graphs)) |->
        NumVertices(component_graphs[((x - 1) % Len(component_graphs)) + 1],
                    (x - 1) \div Len(component_graphs))]

\* The components' per-type edge counts, flattened as
\* sizes[etype * batch_size + g]
EdgeSizesOf(meta_graph, component_graphs) ==
    [x \in 1..(Len(meta_graph.etypes) * Len(component_graphs)) |->
        NumEdges(component_graphs[((x - 1) % Len(component_graphs)) + 1],
                 (x - 1) \div Len(component_graphs))]

UnionFns ==
    {"DisjointUnionHeteroGraph", "DisjointUnionHeteroGraph2",
     "DisjointPartitionHeteroBySizes"}

\* The per-type vertex counts of n components with at most MaxVertices
\* vertices together.
VertexCounts(meta_graph, n) ==
    {counts \in [1..n -> [1..meta_graph.num_vtypes -> 0..MaxVertices]] :
        SumSeq([g \in 1..n |-> SumSeq(counts[g])]) <= MaxVertices}

\* The edges a caller can place: component, edge type (from 1), source and
\* destination vertex, both within the component's counts of their types.
Placements(meta_graph, counts) ==
    {pl \in (DOMAIN counts) \X (DOMAIN meta_graph.etypes)
              \X (0..(MaxVertices - 1)) \X (0..(MaxVertices - 1)) :
        /\ pl[3] < At(counts[pl[1]], meta_graph.etypes[pl[2]][1])
        /\ pl[4] < At(counts[pl[1]], meta_graph.etypes[pl[2]][2])}

\* The component graphs with the given vertex counts and placed edges.
ComponentGraphs(meta_graph, counts, placed) ==
    [g \in DOMAIN counts |->
        CreateHeteroGraph(meta_graph,
            [e \in DOMAIN meta_graph.etypes |->
                LET mine == SelectSeq(placed,
                                LAMBDA pl : pl[1] = g /\ pl[2] = e)
                IN  [j \in DOMAIN mine |-> <<mine[j][3], mine[j][4]>>]],
            counts[g])]

InitUnion ==
    /\ \E meta_graph \in MetaGraphs :
       \E n \in 0..MaxGraphs :
       \E counts \in VertexCounts(meta_graph, n) :
       \E k \in 0..MaxUnionEdges :
       \E placed \in [1..k -> Placements(meta_graph, counts)] :
       \E formats \in FormatLists(n) :
          ureq = [meta_graph       |-> meta_graph,
                  component_graphs |-> ComponentGraphs(meta_graph, counts, placed),
                  formats          |-> formats]
    /\ ures = [f \in UnionFns |-> NotCalled]
    /\ IdleComm
    /\ IdleUid
    /\ IdleCsr
    /\ IdleCoo
    /\ IdleKern
    /\ IdleAtom
    /\ IdleWalk

CallDisjointUnionHeteroGraph ==
    /\ ures["DisjointUnionHeteroGraph"] = NotCalled
    /\ ures' = [ures EXCEPT !["DisjointUnionHeteroGraph"] =
                   DisjointUnionHeteroGraph(ureq.meta_graph, ureq.component_graphs)]
    /\ UNCHANGED <<ureq, nonUnionVars>>

CallDisjointUnionHeteroGraph2 ==
    /\ ures["DisjointUnionHeteroGraph2"] = NotCalled
    /\ ures' = [ures EXCEPT !["DisjointUnionHeteroGraph2"] =
                   DisjointUnionHeteroGraph2(ureq.meta_graph, ureq.component_graphs,
                                             ureq.formats)]
    /\ UNCHANGED <<ureq, nonUnionVars>>

\* DisjointPartitionHeteroBySizes applied to what DisjointUnionHeteroGraph
\* returned, with the components' vertex and edge counts as sizes
CallDisjointPartitionHeteroBySizes ==
    /\ ures["DisjointPartitionHeteroBySizes"] = NotCalled
    /\ ures["DisjointUnionHeteroGraph"] # NotCalled
    /\ ~ures["DisjointUnionHeteroGraph"].fatal
    /\ ures' = [ures EXCEPT !["DisjointPartitionHeteroBySizes"] =
                   DisjointPartitionHeteroBySizes(
                       ureq.meta_graph,
                       ures["DisjointUnionHeteroGraph"].graphs[1],
                       VertexSizesOf(ureq.meta_graph, ureq.component_graphs),
                       EdgeSizesOf(ureq.meta_graph, ureq.component_graphs))]
    /\ UNCHANGED <<ureq, nonUnionVars>>

NextUnion ==
    \/ CallDisjointUnionHeteroGraph
    \/ CallDisjointUnionHeteroGraph2
    \/ CallDisjointPartitionHeteroBySizes

SpecUnion == InitUnion /\ [][NextUnion]_vars

\* Some vertex type of the metagraph is the endpoint of no edge type.
HasLoneVertexType ==
    \E v \in 0..(ureq.meta_graph.num_vtypes - 1) :
        \A e \in DOMAIN ureq.meta_graph.etypes :
            v \notin {ureq.meta_graph.etypes[e][1], ureq.meta_graph.etypes[e][2]}

\* C28: DisjointPartitionHeteroBySizes applied to DisjointUnionHeteroGraph of
\* the components, with the components' per-type vertex counts and per-type
\* edge counts as sizes, succeeds and returns graphs whose per-edge-type
\* (src, dst) edge lists and per-type vertex counts equal those of the
\* components, in order.
C28_PartitionInvertsUnion ==
    ures["DisjointPartitionHeteroBySizes"] # NotCalled =>
        /\ ~ures["DisjointPartitionHeteroBySizes"].fatal
        /\ ures["DisjointPartitionHeteroBySizes"].graphs = ureq.component_graphs

\* The round trip holds on every metagraph all of whose vertex types are an
\* endpoint of some edge type.
PartitionInvertsUnionOfLinkedTypes ==
    (ures["DisjointPartitionHeteroBySizes"] # NotCalled /\ ~HasLoneVertexType) =>
        /\ ~ures["DisjointPartitionHeteroBySizes"].fatal
        /\ ures["DisjointPartitionHeteroBySizes"].graphs = ureq.component_graphs

\* C29: the graph DisjointUnionHeteroGraph or DisjointUnionHeteroGraph2
\* returns has, for every vertex type of the metagraph, types that are the
\* endpoint of no edge type included, a vertex count equal to the sum of that
\* type's vertex counts over the component graphs.
C29_UnionSumsVertexCounts ==
    \A f \in {"DisjointUnionHeteroGraph", "DisjointUnionHeteroGraph2"} :
        (ures[f] # NotCalled /\ ~ures[f].fatal) =>
            \A v \in 0..(ureq.meta_graph.num_vtypes - 1) :
                NumVertices(ures[f].graphs[1], v) =
                    SumSeq([g \in DOMAIN ureq.component_graphs |->
                               NumVertices(ureq.component_graphs[g], v)])

\* The counts are the sums for every vertex type that is an endpoint of some
\* edge type, and 0 for the others.
UnionSumsLinkedVertexCounts ==
    \A f \in {"DisjointUnionHeteroGraph", "DisjointUnionHeteroGraph2"} :
        (ures[f] # NotCalled /\ ~ures[f].fatal) =>
            \A v \in 0..(ureq.meta_graph.num_vtypes - 1) :
                NumVertices(ures[f].graphs[1], v) =
                    IF \E e \in DOMAIN ureq.meta_graph.etypes :
                          v \in {ureq.meta_graph.etypes[e][1],
                                 ureq.meta_graph.etypes[e][2]}
                    THEN SumSeq([g \in DOMAIN ureq.component_graphs |->
                                    NumVertices(ureq.component_graphs[g], v)])
                    ELSE 0

=============================================================================
